---- MODULE Spec2Model ----
(***************************************************************************)
(* Inventory / order synchronisation engine of webapp.py.                  *)
(*                                                                         *)
(* A Python string is modelled as a sequence of atoms (TLA+ strings): a    *)
(* piece of text is one atom or a few (<<"Denim">>, <<"Ordered", " ">>),   *)
(* a formula or a number is spelled out character by character             *)
(* (<<"=","C","2">>, <<"3","3","0","0","0">>), and the empty string is     *)
(* <<>>.  A worksheet is a grid: a sequence of rows, each a sequence of    *)
(* cells, row 1 holding the headers.                                       *)
(***************************************************************************)
EXTENDS Integers, Sequences, FiniteSets, TLC

(* ------------------------------ bounds -------------------------------- *)

\* Largest number of data rows of a movement table handed to a scan.
MaxScan == 2

\* Largest number of rows the session adds to the store, all sheets together:
\* a handler is taken up only if the rows it adds fit.
MaxRows == 2

(* --------------------------- string helpers --------------------------- *)

S(a) == <<a>>

Upper == {"A","B","C","D","E","F","G","H","I","J","K","L","M",
          "N","O","P","Q","R","S","T","U","V","W","X","Y","Z"}

Digits == <<"0","1","2","3","4","5","6","7","8","9">>

DigitSet == {Digits[i] : i \in 1..10}

LowerLetters == {"a","b","c","d","e","f","g","h","i","j","k","l","m",
                 "n","o","p","q","r","s","t","u","v","w","x","y","z"}

\* A character of the regex class \w.
IsWord(a) == a \in Upper \cup LowerLetters \cup DigitSet \cup {"_"}

\* str(n) for a natural number.
RECURSIVE IntStr(_)
IntStr(n) == IF n < 10 THEN <<Digits[n + 1]>>
             ELSE IntStr(n \div 10) \o <<Digits[(n % 10) + 1]>>

DigitVal(a) == CHOOSE d \in 0..9 : Digits[d + 1] = a

\* float(s) for a string of digits; -1 stands for the ValueError.
RECURSIVE ParseNum(_)
ParseNum(s) ==
    IF s = <<>> THEN -1
    ELSE IF s[Len(s)] \notin DigitSet THEN -1
    ELSE IF Len(s) = 1 THEN DigitVal(s[1])
    ELSE LET hi == ParseNum(SubSeq(s, 1, Len(s) - 1))
         IN  IF hi = -1 THEN -1 ELSE hi * 10 + DigitVal(s[Len(s)])

\* str.lower() of one atom, for the atoms of the model.
LowerAtom(a) ==
    CASE a = "Red" -> "red"
      [] a = "Black" -> "black"
      [] a = "Denim" -> "denim"
      [] a = "Canvas" -> "canvas"
      [] a = "Faux Fur" -> "faux fur"
      [] a = "White Fur" -> "white fur"
      [] a = "Ordered" -> "ordered"
      [] a = "ORDERED" -> "ordered"
      [] a = "Received" -> "received"
      [] OTHER -> a

lower(s) == [i \in DOMAIN s |-> LowerAtom(s[i])]

\* str.strip(): whitespace is the atom " ".
RECURSIVE strip(_)
strip(s) ==
    IF s = <<>> THEN s
    ELSE IF s[1] = " " THEN strip(Tail(s))
    ELSE IF s[Len(s)] = " " THEN strip(SubSeq(s, 1, Len(s) - 1))
    ELSE s

\* "fur" in s, for a lower-cased s.
ContainsFur(s) == \E i \in DOMAIN s : s[i] \in {"faux fur", "white fur", "fur"}

\* Python's "x in list" and "[x for x in xs if x]".
InList(x, xs) == \E i \in DOMAIN xs : xs[i] = x

RECURSIVE NonEmpty(_)
NonEmpty(xs) ==
    IF xs = <<>> THEN <<>>
    ELSE IF Head(xs) = <<>> THEN NonEmpty(Tail(xs))
    ELSE <<Head(xs)>> \o NonEmpty(Tail(xs))

Range(xs) == {xs[i] : i \in DOMAIN xs}

(* ------------------------- header addressing -------------------------- *)

\* The value None where the code returns an index or a row number.
None == -1

\* list.index(target): the 0-based position of the first occurrence.
ListIndex(header_list, target) ==
    CHOOSE i \in 0..(Len(header_list) - 1) :
        /\ header_list[i + 1] = target
        /\ \A j \in 0..(i - 1) : header_list[j + 1] # target

\* Faulty variant: the positions of the Thread Data tab as it was laid out
\* first, whatever the header row holds now.
find_exact_header_index_as_laid_out(header_list, target) ==
    CASE target = <<"Color">> -> 0
      [] target = <<"Length (ft)">> -> 1
      [] target = <<"IN/OUT">> -> 2
      [] target = <<"Date">> -> 3
      [] target = <<"O/R">> -> 4
      [] OTHER -> None

find_exact_header_index(header_list, target) ==
    IF InList(target, header_list) THEN ListIndex(header_list, target) ELSE None

Alphabet == <<"A","B","C","D","E","F","G","H","I","J","K","L","M",
              "N","O","P","Q","R","S","T","U","V","W","X","Y","Z">>

\* chr(65 + rem) prepended while n is not 0, n and rem from divmod(n - 1, 26).
RECURSIVE column_letter(_)
column_letter(n) ==
    IF n = 0 THEN <<>>
    ELSE column_letter((n - 1) \div 26) \o <<Alphabet[((n - 1) % 26) + 1]>>

LetterVal(a) == CHOOSE k \in 1..26 : Alphabet[k] = a

\* The column an A1 label names (the store's reading of the letters).
RECURSIVE a1_col(_)
a1_col(letters) ==
    IF letters = <<>> THEN 0
    ELSE a1_col(SubSeq(letters, 1, Len(letters) - 1)) * 26
            + LetterVal(letters[Len(letters)])

(* ------------------------------ worksheets ---------------------------- *)

Width(sh) == Len(sh[1])

BlankRow(n) == [i \in 1..n |-> <<>>]

IsBlankRow(row) == \A i \in DOMAIN row : row[i] = <<>>

\* Faulty variant: the write of a cell replaces its whole row, the other
\* cells of the row left empty.
update_cell_row_replaced(sh, r, c, v) ==
    LET grown == IF r <= Len(sh) THEN sh
                 ELSE sh \o [i \in 1..(r - Len(sh)) |-> [j \in 1..Len(sh[1]) |-> <<>>]]
    IN  [grown EXCEPT ![r] = [j \in 1..Len(sh[1]) |-> IF j = c THEN v ELSE <<>>]]

\* Worksheet.update_cell(row, col, value); the grid grows to hold the row.
update_cell(sh, r, c, v) ==
    LET grown == IF r <= Len(sh) THEN sh
                 ELSE sh \o [i \in 1..(r - Len(sh)) |-> BlankRow(Width(sh))]
    IN  [grown EXCEPT ![r][c] = v]

\* Worksheet.get_all_values(): the rows down to the last one holding a value.
RECURSIVE get_all_values(_)
get_all_values(sh) ==
    IF sh = <<>> THEN sh
    ELSE IF IsBlankRow(sh[Len(sh)]) THEN get_all_values(SubSeq(sh, 1, Len(sh) - 1))
    ELSE sh

row_values(sh, r) == IF r <= Len(sh) THEN sh[r] ELSE <<>>

RECURSIVE TrimTrailing(_)
TrimTrailing(xs) ==
    IF xs = <<>> THEN xs
    ELSE IF xs[Len(xs)] = <<>> THEN TrimTrailing(SubSeq(xs, 1, Len(xs) - 1))
    ELSE xs

\* Faulty variant: the header cell is left out of the column read, so that a
\* row counted from it is one short.
col_values_below_header(sh, c) == Tail(TrimTrailing([r \in 1..Len(sh) |-> sh[r][c]]))

\* Faulty variant: the non-empty cells of the column only.
col_values_non_empty(sh, c) == NonEmpty([r \in 1..Len(sh) |-> sh[r][c]])

\* Worksheet.col_values(col): the column down to its last non-empty cell.
col_values(sh, c) == TrimTrailing([r \in 1..Len(sh) |-> sh[r][c]])

\* Worksheet.acell(label, value_render_option='FORMULA').value
acell(sh, letters, r) ==
    LET c == a1_col(letters)
    IN  IF r <= Len(sh) /\ c \in 1..Width(sh) THEN sh[r][c] ELSE <<>>

\* Worksheet.append_row(values): a new row after the last row holding a value.
append_row(sh, values) == get_all_values(sh) \o <<values>>

(* ------------------ the engine's world and its effects ---------------- *)

(***************************************************************************)
(* The functions of the engine are operators from a world to a world.  A   *)
(* world w holds the worksheets (w.inv "Material Inventory", w.mlog        *)
(* "Material Log", w.tlog "Thread Data", w.dir "Directory", w.tbl          *)
(* "Table"), the five module-level caches and w.ev, the calls made so far  *)
(* by the running handler to the store (update_cell, append_row), to the   *)
(* message boxes and to the cache-clearing functions, in order.            *)
(***************************************************************************)

Ev(k, t, r, c, v) == [k |-> k, t |-> t, r |-> r, c |-> c, v |-> v]

Emit(w, e) == [w EXCEPT !.ev = Append(@, e)]

\* ws.update_cell(r, c, v) on worksheet tab.
ws_update_cell(w, tab, r, c, v) ==
    [Emit(w, Ev("update_cell", tab, r, c, v)) EXCEPT ![tab] = update_cell(@, r, c, v)]

\* messagebox.showerror / showinfo; t names the message, v its variable part.
showerror(w, t, v) == Emit(w, Ev("showerror", t, 0, 0, v))

showinfo(w, t) == Emit(w, Ev("showinfo", t, 0, 0, <<>>))

\* messagebox.askyesno: the question put to the user.
askyesno(w, t, v) == Emit(w, Ev("askyesno", t, 0, 0, v))

\* A cache variable: None, or the list loaded.
NoCache == [loaded |-> FALSE, val |-> <<>>]

Loaded(xs) == [loaded |-> TRUE, val |-> xs]

\* Faulty variant: the function without its global statement, which binds a
\* local name and leaves the module's cache as it was.
clear_materials_cache_local(w) == Emit(w, Ev("clear", "MATERIALS_CACHE", 0, 0, <<>>))

clear_materials_cache(w) ==
    [Emit(w, Ev("clear", "MATERIALS_CACHE", 0, 0, <<>>)) EXCEPT !.MATERIALS_CACHE = NoCache]

\* Faulty variant: as above, for the fur colours.
clear_fur_colors_cache_local(w) == Emit(w, Ev("clear", "FUR_COLORS_CACHE", 0, 0, <<>>))

clear_fur_colors_cache(w) ==
    [Emit(w, Ev("clear", "FUR_COLORS_CACHE", 0, 0, <<>>)) EXCEPT !.FUR_COLORS_CACHE = NoCache]

\* Faulty variant: as above, for the companies.
clear_companies_cache_local(w) == Emit(w, Ev("clear", "COMPANIES_CACHE", 0, 0, <<>>))

clear_companies_cache(w) ==
    [Emit(w, Ev("clear", "COMPANIES_CACHE", 0, 0, <<>>)) EXCEPT !.COMPANIES_CACHE = NoCache]

clear_products_cache(w) ==
    [Emit(w, Ev("clear", "PRODUCTS_CACHE", 0, 0, <<>>)) EXCEPT !.PRODUCTS_CACHE = NoCache]

clear_threads_cache(w) ==
    [Emit(w, Ev("clear", "THREADS_CACHE", 0, 0, <<>>)) EXCEPT !.THREADS_CACHE = NoCache]

\* What a function hands back: the world it leaves and its return value.
Ret(w, ret) == [w |-> w, ret |-> ret]

\* The position in required of the first header not in headers, 0 if none.
FirstMissing(required, headers) ==
    IF \A i \in DOMAIN required : InList(required[i], headers) THEN 0
    ELSE CHOOSE i \in DOMAIN required :
            /\ ~InList(required[i], headers)
            /\ \A j \in 1..(i - 1) : InList(required[j], headers)

(* --------------------------- dimension caches ------------------------- *)

\* The order sorted() gives the names a Directory or Table column holds.
SortRank(name) ==
    CASE name = <<"Acme">> -> 1
      [] name = <<"Birdie">> -> 2
      [] name = <<"Caddy">> -> 3
      [] name = <<"Driver Full">> -> 4
      [] name = <<"Putter">> -> 5
      [] name = <<"Towel">> -> 6
      [] OTHER -> 7

RECURSIVE SortedList(_)
SortedList(set) ==
    IF set = {} THEN <<>>
    ELSE LET m == CHOOSE x \in set : \A y \in set : SortRank(x) <= SortRank(y)
         IN  <<m>> \o SortedList(set \ {m})

\* load_list_from_sheet: get_all_records() keyed by the header row, the
\* non-empty values under header_name, sorted(list(set(values))).
load_list_from_sheet(sheet, header_name) ==
    LET data == get_all_values(sheet)
        headers == row_values(data, 1)
    IN  IF ~InList(header_name, headers) THEN <<>>
        ELSE LET c == ListIndex(headers, header_name) + 1
             IN  SortedList({data[r][c] : r \in 2..Len(data)} \ {<<>>})

get_companies(w) ==
    IF w.COMPANIES_CACHE.loaded THEN Ret(w, w.COMPANIES_CACHE.val)
    ELSE LET xs == load_list_from_sheet(w.dir, S("Company Name"))
         IN  Ret([w EXCEPT !.COMPANIES_CACHE = Loaded(xs)], xs)

get_products(w) ==
    IF w.PRODUCTS_CACHE.loaded THEN Ret(w, w.PRODUCTS_CACHE.val)
    ELSE LET xs == load_list_from_sheet(w.tbl, S("Products"))
         IN  Ret([w EXCEPT !.PRODUCTS_CACHE = Loaded(xs)], xs)

get_materials(w) ==
    IF w.MATERIALS_CACHE.loaded THEN Ret(w, w.MATERIALS_CACHE.val)
    ELSE LET headers == row_values(w.inv, 1)
         IN  IF InList(S("Materials"), headers)
             THEN LET col_index == ListIndex(headers, S("Materials")) + 1
                      xs == NonEmpty(Tail(col_values(w.inv, col_index)))
                  IN  Ret([w EXCEPT !.MATERIALS_CACHE = Loaded(xs)], xs)
             ELSE Ret(showerror(w, "Header not found in Material Inventory",
                                S("Materials")), <<>>)

get_fur_colors(w) ==
    IF w.FUR_COLORS_CACHE.loaded THEN Ret(w, w.FUR_COLORS_CACHE.val)
    ELSE LET headers == row_values(w.inv, 1)
         IN  IF InList(S("Fur Color"), headers)
             THEN LET col_index == ListIndex(headers, S("Fur Color")) + 1
                      xs == NonEmpty(Tail(col_values(w.inv, col_index)))
                  IN  Ret([w EXCEPT !.FUR_COLORS_CACHE = Loaded(xs)], xs)
             ELSE Ret(showerror(w, "Header not found in Material Inventory",
                                S("Fur Color")), <<>>)

get_threads_inventory(w) ==
    IF w.THREADS_CACHE.loaded THEN Ret(w, w.THREADS_CACHE.val)
    ELSE LET headers == row_values(w.inv, 1)
         IN  IF InList(S("Thread Colors"), headers)
             THEN LET col_index == ListIndex(headers, S("Thread Colors")) + 1
                      xs == NonEmpty(Tail(col_values(w.inv, col_index)))
                  IN  Ret([w EXCEPT !.THREADS_CACHE = Loaded(xs)], xs)
             ELSE Ret(showerror(w, "Header not found in Material Inventory",
                                S("Thread Colors")), <<>>)

\* sorted(list(set(get_materials()).union(set(get_fur_colors())))), as the set.
get_union_material_list(w) ==
    LET m == get_materials(w)
        f == get_fur_colors(m.w)
    IN  Ret(f.w, Range(m.ret) \cup Range(f.ret))

(* ---------------------- inventory record creation --------------------- *)

\* The number of leading upper-case letters of s.
RECURSIVE UpperRun(_)
UpperRun(s) ==
    IF s = <<>> THEN 0
    ELSE IF s[1] \in Upper THEN 1 + UpperRun(Tail(s))
    ELSE 0

\* re.sub(r'([A-Z]+)2\b', lambda m: f"{m.group(1)}{new_row}", formula)
RECURSIVE sub_row2(_, _)
sub_row2(formula, new_row) ==
    IF formula = <<>> THEN <<>>
    ELSE IF formula[1] \in Upper
    THEN LET k == UpperRun(formula)
             rest == SubSeq(formula, k + 1, Len(formula))
         IN  IF /\ rest # <<>>
                /\ rest[1] = "2"
                /\ (Len(rest) = 1 \/ ~IsWord(rest[2]))
             THEN SubSeq(formula, 1, k) \o IntStr(new_row)
                     \o sub_row2(Tail(rest), new_row)
             ELSE SubSeq(formula, 1, k) \o sub_row2(rest, new_row)
    ELSE <<formula[1]>> \o sub_row2(Tail(formula), new_row)

\* The template-row formula of column col rewritten for new_row and written
\* there, or the literal "0" when the template cell is empty.
CloneFormula(w, new_row, col) ==
    LET formula == acell(w.inv, column_letter(col), 2)
    IN  IF formula # <<>>
        THEN ws_update_cell(w, "inv", new_row, col, sub_row2(formula, new_row))
        ELSE ws_update_cell(w, "inv", new_row, col, S("0"))

\* Faulty variant: the addresses of the template row, not of the new row.
ValueFormula_of_template_row(price, inv_col, on_order_col, new_row) ==
    <<"=">> \o price \o <<"*", "(">>
        \o column_letter(inv_col) \o IntStr(2) \o <<"+">>
        \o column_letter(on_order_col) \o IntStr(2) \o <<")">>

\* f"={price}*({inv_cell_addr}+{on_order_cell_addr})"
ValueFormula(price, inv_col, on_order_col, new_row) ==
    <<"=">> \o price \o <<"*", "(">>
        \o column_letter(inv_col) \o IntStr(new_row) \o <<"+">>
        \o column_letter(on_order_col) \o IntStr(new_row) \o <<")">>

create_new_material_inventory(w, material, unit, min_inv, reorder, price) ==
    LET headers == row_values(w.inv, 1)
        required == <<S("Materials"), S("Unit"), S("Min. Inv."), S("Reorder"),
                      S("On Order"), S("Inventory"), S("Value")>>
        miss == FirstMissing(required, headers)
    IN  IF miss # 0
        THEN showerror(w, "Header not found in Material Inventory", required[miss])
        ELSE LET mat_col == ListIndex(headers, S("Materials")) + 1
                 unit_col == ListIndex(headers, S("Unit")) + 1
                 min_inv_col == ListIndex(headers, S("Min. Inv.")) + 1
                 reorder_col == ListIndex(headers, S("Reorder")) + 1
                 on_order_col == ListIndex(headers, S("On Order")) + 1
                 inventory_col == ListIndex(headers, S("Inventory")) + 1
                 value_col == ListIndex(headers, S("Value")) + 1
                 new_row == Len(col_values(w.inv, mat_col)) + 1
                 w1 == ws_update_cell(w, "inv", new_row, mat_col, material)
                 w2 == ws_update_cell(w1, "inv", new_row, unit_col, unit)
                 w3 == ws_update_cell(w2, "inv", new_row, min_inv_col, min_inv)
                 w4 == ws_update_cell(w3, "inv", new_row, reorder_col, reorder)
                 w5 == CloneFormula(w4, new_row, on_order_col)
                 w6 == CloneFormula(w5, new_row, inventory_col)
             IN  ws_update_cell(w6, "inv", new_row, value_col,
                     ValueFormula(price, inventory_col, on_order_col, new_row))

create_new_fur_color_inventory(w, fur_color, min_inv, reorder, price) ==
    LET headers == row_values(w.inv, 1)
        required == <<S("Fur Color"), S("Min Inv."), S("Reorder."),
                      S("On Order."), S("Inventory."), S("Value.")>>
        miss == FirstMissing(required, headers)
    IN  IF miss # 0
        THEN showerror(w, "Header not found in Material Inventory", required[miss])
        ELSE LET fur_col == ListIndex(headers, S("Fur Color")) + 1
                 min_inv_col == ListIndex(headers, S("Min Inv.")) + 1
                 reorder_col == ListIndex(headers, S("Reorder.")) + 1
                 on_order_col == ListIndex(headers, S("On Order.")) + 1
                 inv_col == ListIndex(headers, S("Inventory.")) + 1
                 value_col == ListIndex(headers, S("Value.")) + 1
                 new_row == Len(col_values(w.inv, fur_col)) + 1
                 w1 == ws_update_cell(w, "inv", new_row, fur_col, fur_color)
                 w2 == ws_update_cell(w1, "inv", new_row, min_inv_col, min_inv)
                 w3 == ws_update_cell(w2, "inv", new_row, reorder_col, reorder)
                 w4 == CloneFormula(w3, new_row, on_order_col)
                 w5 == CloneFormula(w4, new_row, inv_col)
             IN  ws_update_cell(w5, "inv", new_row, value_col,
                     ValueFormula(price, inv_col, on_order_col, new_row))

create_new_thread_inventory(w, thread_color, min_inv, reorder, price) ==
    LET headers == row_values(w.inv, 1)
        required == <<S("Thread Colors"), S("Min Inv.."), S("Reorder.."),
                      S("On Order.."), S("Inventory.."), S("Value..")>>
        miss == FirstMissing(required, headers)
    IN  IF miss # 0
        THEN showerror(w, "Header not found in Material Inventory", required[miss])
        ELSE LET t_col == ListIndex(headers, S("Thread Colors")) + 1
                 new_row == Len(col_values(w.inv, t_col)) + 1
                 w1 == ws_update_cell(w, "inv", new_row, t_col, thread_color)
                 w2 == ws_update_cell(w1, "inv", new_row,
                           ListIndex(headers, S("Min Inv..")) + 1, min_inv)
                 w3 == ws_update_cell(w2, "inv", new_row,
                           ListIndex(headers, S("Reorder..")) + 1, reorder)
                 inv_col == ListIndex(headers, S("Inventory..")) + 1
                 w4 == CloneFormula(w3, new_row, inv_col)
                 on_order_col == ListIndex(headers, S("On Order..")) + 1
                 w5 == CloneFormula(w4, new_row, on_order_col)
                 value_col == ListIndex(headers, S("Value..")) + 1
             IN  ws_update_cell(w5, "inv", new_row, value_col,
                     ValueFormula(price, inv_col, on_order_col, new_row))

(* ----------------------------- ledger appends ------------------------- *)

update_material_log(w, material, qty, order_status, date_stamp) ==
    LET headers == row_values(w.mlog, 1)
        required == <<S("Material"), S("Yards"), S("IN/OUT"), S("O/R"), S("Date")>>
        miss == FirstMissing(required, headers)
    IN  IF miss # 0
        THEN Ret(showerror(w, "Header not found in Material Log", required[miss]), None)
        ELSE LET mat_col == ListIndex(headers, S("Material")) + 1
                 yards_col == ListIndex(headers, S("Yards")) + 1
                 inout_col == ListIndex(headers, S("IN/OUT")) + 1
                 or_col == ListIndex(headers, S("O/R")) + 1
                 date_col == ListIndex(headers, S("Date")) + 1
                 materials_vals == col_values(w.mlog, mat_col)
                 new_row == Len(materials_vals) + 1
                 w1 == ws_update_cell(w, "mlog", new_row, mat_col, material)
                 w2 == ws_update_cell(w1, "mlog", new_row, yards_col, qty)
                 w3 == ws_update_cell(w2, "mlog", new_row, inout_col, S("IN"))
                 w4 == ws_update_cell(w3, "mlog", new_row, or_col, order_status)
                 w5 == ws_update_cell(w4, "mlog", new_row, date_col, date_stamp)
             IN  Ret(w5, new_row)

\* Length units per cone.
ConeLength == 16500

post_thread_data(w, thread_color, thread_qty, thread_or, date_stamp) ==
    LET parsed == ParseNum(thread_qty)
        new_qty == IF parsed # -1 THEN parsed * ConeLength ELSE 0
        headers == row_values(w.tlog, 1)
        color_idx == find_exact_header_index(headers, S("Color"))
        length_idx == find_exact_header_index(headers, S("Length (ft)"))
        inout_idx == find_exact_header_index(headers, S("IN/OUT"))
        date_idx == find_exact_header_index(headers, S("Date"))
        or_idx == find_exact_header_index(headers, S("O/R"))
    IN  IF color_idx = None \/ length_idx = None \/ inout_idx = None
        THEN Ret(showerror(w, "Required headers not found in Thread Data tab", <<>>),
                 None)
        ELSE LET rows == col_values(w.tlog, color_idx + 1)
                 new_row == Len(rows) + 1
                 w1 == ws_update_cell(w, "tlog", new_row, color_idx + 1, thread_color)
                 w2 == ws_update_cell(w1, "tlog", new_row, length_idx + 1,
                                      IntStr(new_qty))
                 w3 == ws_update_cell(w2, "tlog", new_row, inout_idx + 1, S("IN"))
                 w4 == IF date_idx # None
                       THEN ws_update_cell(w3, "tlog", new_row, date_idx + 1, date_stamp)
                       ELSE w3
                 w5 == IF or_idx # None
                       THEN ws_update_cell(w4, "tlog", new_row, or_idx + 1, thread_or)
                       ELSE w4
             IN  Ret(w5, new_row)

(* --------------------------- movement entries ------------------------- *)

\* f"{n:02d}"
Pad2(n) == IF n < 10 THEN <<"0">> \o IntStr(n) ELSE IntStr(n)

\* f"{now.month}/{now.day}/{now.year} {now.hour:02d}:{now.minute:02d}:{now.second:02d}"
DateStamp(now) ==
    IntStr(now.month) \o <<"/">> \o IntStr(now.day) \o <<"/">> \o IntStr(now.year)
        \o <<" ">> \o Pad2(now.hour) \o <<":">> \o Pad2(now.minute) \o <<":">>
        \o Pad2(now.second)

\* What the user puts into a NewMaterialDialog: the fields apply() stores,
\* all None (here empty) when the dialog is cancelled.
DialogFilled ==
    [min_inv |-> S("5"), reorder |-> S("10"), price |-> <<"4", ".", "5">>,
     unit |-> S("yard")]

DialogNoPrice == [DialogFilled EXCEPT !.price = <<>>]

DialogCancelled == [min_inv |-> <<>>, reorder |-> <<>>, price |-> <<>>, unit |-> <<>>]

Dialogs == {DialogFilled, DialogNoPrice, DialogCancelled}

\* What the user answers when a name is not found: the reply to askyesno and,
\* after a Yes, the dialog's contents.
Answers ==
    {[response |-> FALSE, dialog |-> DialogCancelled]}
        \cup {[response |-> TRUE, dialog |-> d] : d \in Dialogs}

\* Faulty variant: the movement is logged without looking the name up.
process_material_entry_unchecked(w, material, qty, order_status, now, answer) ==
    update_material_log(w, material, qty, order_status, DateStamp(now))

process_material_entry(w, material, qty, order_status, now, answer) ==
    LET headers == row_values(w.inv, 1)
        mat_col == IF InList(S("Materials"), headers)
                   THEN ListIndex(headers, S("Materials")) + 1 ELSE None
        fur_col == IF InList(S("Fur Color"), headers)
                   THEN ListIndex(headers, S("Fur Color")) + 1 ELSE None
    IN  IF mat_col = None \/ fur_col = None
        THEN Ret(showerror(w, "Required headers 'Materials' or 'Fur Color' not found",
                           <<>>), None)
        ELSE
        LET materials_list == Tail(col_values(w.inv, mat_col))
            fur_list == Tail(col_values(w.inv, fur_col))
            date_stamp == DateStamp(now)
        IN  IF ~InList(material, materials_list) /\ ~InList(material, fur_list)
            THEN LET asked == askyesno(w, "New Material", material)
                     dialog == answer.dialog
                 IN  IF answer.response
                     THEN IF dialog.min_inv = <<>> \/ dialog.reorder = <<>>
                             \/ dialog.price = <<>> \/ dialog.unit = <<>>
                          THEN Ret(showerror(asked, "All fields are required", <<>>), None)
                          ELSE LET made ==
                                     IF ContainsFur(lower(material))
                                     THEN clear_fur_colors_cache(
                                            create_new_fur_color_inventory(asked, material,
                                                dialog.min_inv, dialog.reorder, dialog.price))
                                     ELSE clear_materials_cache(
                                            create_new_material_inventory(asked, material,
                                                dialog.unit, dialog.min_inv, dialog.reorder,
                                                dialog.price))
                               IN  update_material_log(made, material, qty, order_status,
                                                       date_stamp)
                     ELSE Ret(showinfo(asked, "Entry submission cancelled."), None)
            ELSE update_material_log(w, material, qty, order_status, date_stamp)

update_thread_inventory_cell(w, thread_color, new_quantity) ==
    LET headers == row_values(w.inv, 1)
        records == get_all_values(w.inv)
        t_col == IF InList(S("Thread Colors"), headers)
                 THEN ListIndex(headers, S("Thread Colors")) ELSE None
        hits == IF t_col = None THEN {}
                ELSE {i \in 2..Len(records) : strip(records[i][t_col + 1]) = thread_color}
        row_num == IF hits = {} THEN None
                   ELSE CHOOSE i \in hits : \A j \in hits : i <= j
    IN  IF row_num = None THEN Ret(w, FALSE)
        ELSE IF InList(S("Inventory.."), headers)
             THEN Ret(ws_update_cell(w, "inv", row_num,
                          ListIndex(headers, S("Inventory..")) + 1, new_quantity), TRUE)
             ELSE Ret(showerror(w, "Header not found in Material Inventory",
                                S("Inventory..")), TRUE)

\* Whether the module defines the class NewEntryDialog, which
\* process_thread_entry instantiates after a Yes: it defines no such name, so
\* the call raises NameError.
NewEntryDialogDefined == FALSE

\* process_thread_entry returns True or False, or raises.
process_thread_entry(w, thread_color, qty, answer) ==
    LET headers == row_values(w.inv, 1)
    IN  IF ~InList(S("Thread Colors"), headers)
        THEN Ret(showerror(w, "Header not found in Material Inventory",
                           S("Thread Colors")), "False")
        ELSE
        LET t_col == ListIndex(headers, S("Thread Colors")) + 1
            threads_list == Tail(col_values(w.inv, t_col))
        IN  IF \E k \in DOMAIN threads_list :
                    lower(strip(threads_list[k])) = lower(strip(thread_color))
            THEN Ret(update_thread_inventory_cell(w, thread_color, qty).w, "True")
            ELSE LET asked == askyesno(w, "New Thread Color", thread_color)
                     dialog == answer.dialog
                 IN  IF answer.response
                     THEN IF ~NewEntryDialogDefined THEN Ret(asked, "NameError")
                          ELSE IF dialog.min_inv = <<>> \/ dialog.reorder = <<>>
                                  \/ dialog.price = <<>>
                          THEN Ret(showerror(asked, "Min Inv., Reorder, and Price values must be provided.", <<>>), "False")
                          ELSE LET made == create_new_thread_inventory(asked, thread_color,
                                              dialog.min_inv, dialog.reorder, dialog.price)
                               IN  Ret(update_thread_inventory_cell(made, thread_color,
                                                                    qty).w, "True")
                     ELSE Ret(showinfo(asked, "Thread entry submission cancelled."),
                              "False")

(* -------------------------- order reconciliation ---------------------- *)

\* Faulty variant: one decimal, as f"{qty_val:.1f} cones" would give.
ConesDisplay_one_decimal(n) ==
    LET h == (n * 10 + (ConeLength \div 2)) \div ConeLength
    IN  IntStr(h \div 10) \o <<".", Digits[(h % 10) + 1]>> \o <<" cones">>

\* f"{qty_val:.2f} cones" for qty_val = n / 16500, n a whole number: the
\* hundredths nearest to the quotient (no whole n falls on a tie).
ConesDisplay(n) ==
    LET h == (n * 100 + (ConeLength \div 2)) \div ConeLength
    IN  IntStr(h \div 100) \o <<".", Digits[((h % 100) \div 10) + 1], Digits[(h % 10) + 1]>>
            \o <<" cones">>

\* Faulty variant: the status compared as written, "Ordered" only.
RECURSIVE OrderedRows_exact(_, _, _)
OrderedRows_exact(data, or_idx, i) ==
    IF i > Len(data) THEN <<>>
    ELSE IF or_idx # None /\ strip(data[i][or_idx + 1]) = <<"Ordered">>
    THEN <<i>> \o OrderedRows_exact(data, or_idx, i + 1)
    ELSE OrderedRows_exact(data, or_idx, i + 1)

\* The rows i >= 2 of data, in order, whose O/R cell is "ordered" after
\* strip() and lower().
RECURSIVE OrderedRows(_, _, _)
OrderedRows(data, or_idx, i) ==
    IF i > Len(data) THEN <<>>
    ELSE IF or_idx # None /\ lower(strip(data[i][or_idx + 1])) = <<"ordered">>
    THEN <<i>> \o OrderedRows(data, or_idx, i + 1)
    ELSE OrderedRows(data, or_idx, i + 1)

\* The first try block of load_orders_from_sheets.  Building the entry of the
\* first matching row compares len(row) with an index that is None when Date,
\* Material or Yards is missing: the TypeError ends the scan, nothing appended.
MaterialOrders(w) ==
    LET data == get_all_values(w.mlog)
    IN  IF Len(data) < 2 THEN <<>>
        ELSE
        LET headers == data[1]
            or_idx == find_exact_header_index(headers, S("O/R"))
            date_idx == find_exact_header_index(headers, S("Date"))
            material_idx == find_exact_header_index(headers, S("Material"))
            yards_idx == find_exact_header_index(headers, S("Yards"))
            rows == OrderedRows(data, or_idx, 2)
        IN  IF date_idx = None \/ material_idx = None \/ yards_idx = None THEN <<>>
            ELSE [k \in DOMAIN rows |->
                    [row |-> rows[k],
                     date |-> data[rows[k]][date_idx + 1],
                     type |-> "Material",
                     name |-> data[rows[k]][material_idx + 1],
                     quantity |-> data[rows[k]][yards_idx + 1]]]

\* The second try block.  A missing Length (ft) raises inside the inner try
\* and again in its except clause, a missing Date or Color while the entry is
\* built: either way the scan ends with nothing appended.
ThreadOrders(w) ==
    LET data == get_all_values(w.tlog)
    IN  IF Len(data) < 2 THEN <<>>
        ELSE
        LET headers == data[1]
            or_idx == find_exact_header_index(headers, S("O/R"))
            date_idx == find_exact_header_index(headers, S("Date"))
            color_idx == find_exact_header_index(headers, S("Color"))
            length_idx == find_exact_header_index(headers, S("Length (ft)"))
            rows == OrderedRows(data, or_idx, 2)
            display_qty(cell) == IF ParseNum(cell) # -1 THEN ConesDisplay(ParseNum(cell))
                                 ELSE cell
        IN  IF date_idx = None \/ color_idx = None \/ length_idx = None THEN <<>>
            ELSE [k \in DOMAIN rows |->
                    [row |-> rows[k],
                     date |-> data[rows[k]][date_idx + 1],
                     type |-> "Thread",
                     name |-> data[rows[k]][color_idx + 1],
                     quantity |-> display_qty(data[rows[k]][length_idx + 1])]]

\* Faulty variant: one try block around both scans, so that a failure of
\* the first leaves the second undone.
load_orders_from_sheets_one_try(w) ==
    IF MaterialOrders(w) = <<>> THEN <<>> ELSE MaterialOrders(w) \o ThreadOrders(w)

\* Faulty variant: the Thread Data scan ahead of the Material Log's.
load_orders_from_sheets_threads_first(w) == ThreadOrders(w) \o MaterialOrders(w)

load_orders_from_sheets(w) == MaterialOrders(w) \o ThreadOrders(w)

\* InventoryOrderedTab.refresh: the tree's items, one per order, its id the
\* kind's letter and the row number (here the item's type and row).
refresh(w) == load_orders_from_sheets(w)

\* Faulty variant: the kind of the reference ignored, every row number taken
\* as one of the Material Log.
ReceiveItem_material_log_only(w, item, new_date_stamp) ==
    LET headers == row_values(w.mlog, 1)
    IN  IF ~InList(S("O/R"), headers) THEN w
        ELSE LET or_col == ListIndex(headers, S("O/R")) + 1
                 w1 == ws_update_cell(w, "mlog", item.row, or_col, S("Received"))
             IN  IF InList(S("Date"), headers)
                 THEN ws_update_cell(w1, "mlog", item.row,
                          ListIndex(headers, S("Date")) + 1, new_date_stamp)
                 ELSE w1

\* Faulty variant: the row number of the reference taken as counted below
\* the header row, so that the row under the referenced one is marked.
ReceiveItem_row_below(w, item, new_date_stamp) ==
    LET tab == IF item.type = "Material" THEN "mlog" ELSE "tlog"
        headers == row_values(w[tab], 1)
    IN  IF ~InList(S("O/R"), headers) THEN w
        ELSE LET or_col == ListIndex(headers, S("O/R")) + 1
                 w1 == ws_update_cell(w, tab, item.row + 1, or_col, S("Received"))
             IN  IF InList(S("Date"), headers)
                 THEN ws_update_cell(w1, tab, item.row + 1,
                          ListIndex(headers, S("Date")) + 1, new_date_stamp)
                 ELSE w1

\* Faulty variant: the status is set and the date left as it was.
ReceiveItem_status_only(w, item, new_date_stamp) ==
    LET tab == IF item.type = "Material" THEN "mlog" ELSE "tlog"
        headers == row_values(w[tab], 1)
    IN  IF ~InList(S("O/R"), headers) THEN w
        ELSE ws_update_cell(w, tab, item.row, ListIndex(headers, S("O/R")) + 1,
                            S("Received"))

\* One turn of the loop of receive_orders, for a selected item.
ReceiveItem(w, item, new_date_stamp) ==
    LET tab == IF item.type = "Material" THEN "mlog" ELSE "tlog"
        headers == row_values(w[tab], 1)
    IN  IF ~InList(S("O/R"), headers)
        THEN showerror(w, IF item.type = "Material"
                          THEN "Header 'O/R' not found in Material Log"
                          ELSE "Header 'O/R' not found in Thread Data", <<>>)
        ELSE LET or_col == ListIndex(headers, S("O/R")) + 1
                 w1 == ws_update_cell(w, tab, item.row, or_col, S("Received"))
             IN  IF InList(S("Date"), headers)
                 THEN ws_update_cell(w1, tab, item.row,
                          ListIndex(headers, S("Date")) + 1, new_date_stamp)
                 ELSE w1

RECURSIVE ReceiveLoop(_, _, _)
ReceiveLoop(w, selected_items, new_date_stamp) ==
    IF selected_items = <<>> THEN w
    ELSE ReceiveLoop(ReceiveItem(w, Head(selected_items), new_date_stamp),
                     Tail(selected_items), new_date_stamp)

\* InventoryOrderedTab.receive_orders: the world it leaves and the tree.
receive_orders(w, tree_items, selected_items, now) ==
    IF selected_items = <<>>
    THEN [w |-> showerror(w, "No orders selected.", <<>>), tree |-> tree_items]
    ELSE LET Refreshed(done) == [w |-> done, tree |-> refresh(done)]
         IN  Refreshed(showinfo(ReceiveLoop(w, selected_items, DateStamp(now)),
                 "Selected orders marked as Received with updated timestamp."))

(* ------------------------- inventory tab handlers --------------------- *)

Count(ev, k) == Cardinality({i \in DOMAIN ev : ev[i].k = k})

\* What one turn of a submission loop did: the name, whether it succeeded,
\* the ledger row it returned (None if none), whether it raised, the reply to
\* the onboarding question ("-" when none was asked) and the numbers of error
\* boxes, cell writes and cache clearings.
CallSummary(name, ok, row, raised, answer, ev) ==
    LET asked == \E i \in DOMAIN ev : ev[i].k = "askyesno"
    IN  [name |-> name, ok |-> ok, row |-> row, raised |-> raised,
         reply |-> IF ~asked THEN "-" ELSE IF answer.response THEN "Yes" ELSE "No",
         dialog |-> IF asked /\ answer.response THEN answer.dialog ELSE DialogCancelled,
         errors |-> Count(ev, "showerror"),
         writes |-> Count(ev, "update_cell"),
         clears |-> Count(ev, "clear")]

Quiet(w) == [w EXCEPT !.ev = <<>>]

\* The loop of InventoryTab.update_material_entries over the filled rows
\* i.. of the form; it stops at the first row whose result is None.
RECURSIVE MaterialLoop(_, _, _, _, _)
MaterialLoop(w, form, answers, now, i) ==
    IF i > Len(form) THEN [w |-> w, calls |-> <<>>]
    ELSE LET Turn(r) ==
                 LET call == CallSummary(form[i].name, r.ret # None, r.ret, FALSE,
                                         answers[i], r.w.ev)
                     Following(rest) == [w |-> rest.w, calls |-> <<call>> \o rest.calls]
                 IN  IF r.ret = None
                     THEN [w |-> showinfo(r.w, "Stopped processing"), calls |-> <<call>>]
                     ELSE Following(MaterialLoop(r.w, form, answers, now, i + 1))
         IN  Turn(process_material_entry(Quiet(w), form[i].name, form[i].qty,
                                         form[i].status, now, answers[i]))

update_material_entries(w, form, answers, now) ==
    LET Finally(looped, done) == [w |-> done, calls |-> looped.calls, tree |-> refresh(done)]
        Complete(looped) ==
            Finally(looped, showinfo(looped.w, "Material inventory update complete."))
    IN  Complete(MaterialLoop(w, form, answers, now, 1))

\* The loop of update_thread_entries; raised tells that a row raised, which
\* ends the loop in the handler's except clause.
RECURSIVE ThreadLoop(_, _, _, _, _)
ThreadLoop(w, form, answers, now, i) ==
    IF i > Len(form) THEN [w |-> w, calls |-> <<>>, raised |-> FALSE]
    ELSE LET Posted(p) ==
                 LET call == CallSummary(form[i].name, TRUE, p.ret, FALSE,
                                         answers[i], p.w.ev)
                     Following(rest) == [w |-> rest.w, raised |-> rest.raised,
                                         calls |-> <<call>> \o rest.calls]
                 IN  Following(ThreadLoop(p.w, form, answers, now, i + 1))
             Turn(r) ==
                 IF r.ret = "NameError"
                 THEN [w |-> r.w, raised |-> TRUE,
                       calls |-> <<CallSummary(form[i].name, FALSE, None, TRUE,
                                               answers[i], r.w.ev)>>]
                 ELSE IF r.ret = "False"
                 THEN [w |-> showinfo(r.w, "Stopped processing"), raised |-> FALSE,
                       calls |-> <<CallSummary(form[i].name, FALSE, None, FALSE,
                                               answers[i], r.w.ev)>>]
                 ELSE Posted(post_thread_data(r.w, form[i].name, form[i].qty,
                                              form[i].status, DateStamp(now)))
         IN  Turn(process_thread_entry(Quiet(w), form[i].name, form[i].qty, answers[i]))

update_thread_entries(w, form, answers, now) ==
    LET Finally(looped, done) == [w |-> done, calls |-> looped.calls, tree |-> refresh(done)]
        Complete(looped) ==
            Finally(looped,
                    IF looped.raised THEN showerror(looped.w, "An error occurred", <<>>)
                    ELSE showinfo(looped.w, "Thread inventory update complete."))
    IN  Complete(ThreadLoop(w, form, answers, now, 1))

(* -------------------------- order form handlers ----------------------- *)

\* data.get(h, "") for the dictionary a NewCompanyDialog returns.
CompanyField(data, h) ==
    CASE h = S("Company Name") -> data.name
      [] h = S("City") -> data.city
      [] OTHER -> <<>>

create_new_company(w, data) ==
    LET headers == row_values(w.dir, 1)
        row == [k \in DOMAIN headers |-> CompanyField(data, headers[k])]
        appended == [Emit(w, Ev("append_row", "dir", 0, 0, data.name))
                        EXCEPT !.dir = append_row(@, row)]
    IN  clear_companies_cache(appended)

\* OrderEntryApp.company_selected for the name typed; answer.result is the
\* dialog's dictionary, answer.cancelled tells that there is none.
company_selected(w, name, answer) ==
    LET known == get_companies(w)
    IN  IF InList(name, known.ret) THEN Ret(known.w, "return")
        ELSE LET asked == askyesno(known.w, "New Company", name)
             IN  IF ~answer.response THEN Ret(asked, "Exception")
                 ELSE IF answer.cancelled THEN Ret(asked, "Exception")
                 ELSE LET made == create_new_company(asked, answer.result)
                      IN  Ret(get_companies(clear_companies_cache(made)).w, "done")

\* OrderEntryApp.material_selected for the text of a material field.  A
\* cancelled dialog leaves its fields None: the cells written stay empty and
\* the value formula spells the price "None".
material_selected(w, mat, answer) ==
    LET union == get_union_material_list(w)
    IN  IF mat \in union.ret THEN Ret(union.w, "return")
        ELSE LET asked == askyesno(union.w, "New Material", mat)
                 dlg == answer.dialog
             IN  IF answer.response
                 THEN LET made == create_new_material_inventory(asked, mat, dlg.unit,
                                     dlg.min_inv, dlg.reorder,
                                     IF dlg = DialogCancelled THEN <<"N", "o", "n", "e">>
                                     ELSE dlg.price)
                          cleared == clear_fur_colors_cache(clear_materials_cache(made))
                      IN  Ret(get_union_material_list(cleared).w, "done")
                 ELSE Ret(asked, "Exception")

\* OrderEntryApp.fur_color_selected for the text of the fur colour field.
fur_color_selected(w, fur, answer) ==
    LET known == get_fur_colors(w)
    IN  IF InList(fur, known.ret) THEN Ret(known.w, "return")
        ELSE LET asked == askyesno(known.w, "New Fur Color", fur)
                 dlg == answer.dialog
             IN  IF ~answer.response THEN Ret(asked, "Exception")
                 ELSE IF dlg.min_inv = <<>> \/ dlg.reorder = <<>> \/ dlg.price = <<>>
                 THEN Ret(asked, "Exception")
                 ELSE LET made == create_new_fur_color_inventory(asked, fur, dlg.min_inv,
                                     dlg.reorder, dlg.price)
                      IN  Ret(get_fur_colors(clear_fur_colors_cache(made)).w, "done")

\* OrderEntryApp.clear_fields, as far as it reads the dimensions: it fills
\* the comboboxes again, each through its cache.
clear_fields(w) ==
    LET a == get_companies(w).w
        b == get_products(a).w
        c == get_union_material_list(b).w
    IN  get_fur_colors(c).w

(* ----------------------------- order submission ----------------------- *)

\* The loop of OrderEntryApp.process_new_materials over the material fields
\* i.. of the order form; union_list is the local list, read again only after
\* a record was created.
RECURSIVE NewMaterialsLoop(_, _, _, _, _)
NewMaterialsLoop(w, fields, answers, union_list, i) ==
    IF i > Len(fields) THEN Ret(w, "done")
    ELSE IF fields[i] = <<>> \/ fields[i] \in union_list
    THEN NewMaterialsLoop(w, fields, answers, union_list, i + 1)
    ELSE LET asked == askyesno(w, "New Entry", fields[i])
             dlg == answers[i].dialog
             Relisted(u) == NewMaterialsLoop(u.w, fields, answers, u.ret, i + 1)
         IN  IF ~answers[i].response THEN Ret(asked, "Exception")
             ELSE IF dlg.unit = <<>> \/ dlg.min_inv = <<>> \/ dlg.reorder = <<>>
                     \/ dlg.price = <<>>
             THEN Ret(asked, "Exception")
             ELSE Relisted(get_union_material_list(clear_materials_cache(
                      create_new_material_inventory(asked, fields[i], dlg.unit,
                          dlg.min_inv, dlg.reorder, dlg.price))))

process_new_materials(w, fields, answers) ==
    LET Looped(u) == NewMaterialsLoop(u.w, fields, answers, u.ret, 1)
    IN  Looped(get_union_material_list(w))

process_new_fur_color(w, fur, answer) ==
    LET dlg == answer.dialog
        Checked(fur_list) ==
            IF fur = <<>> \/ InList(fur, fur_list.ret) THEN Ret(fur_list.w, "done")
            ELSE IF ~answer.response
            THEN Ret(askyesno(fur_list.w, "New Entry", fur), "Exception")
            ELSE IF dlg.unit = <<>> \/ dlg.min_inv = <<>> \/ dlg.reorder = <<>>
                    \/ dlg.price = <<>>
            THEN Ret(askyesno(fur_list.w, "New Entry", fur), "Exception")
            ELSE Ret(clear_fur_colors_cache(
                         create_new_fur_color_inventory(
                             askyesno(fur_list.w, "New Entry", fur), fur,
                             dlg.min_inv, dlg.reorder, dlg.price)), "done")
    IN  Checked(get_fur_colors(w))

\* OrderEntryApp.submit_order.  The three pop-up steps run before its try
\* block, so what one raises leaves the handler; the body then writes the
\* order to the worksheet "Production Orders", which is none of the sheets
\* here: valid tells whether it went through, and clear_fields follows if so.
submit_order(w, order, answers, valid) ==
    LET Body(f) ==
            IF f.ret = "Exception" THEN f
            ELSE IF ~valid THEN Ret(showerror(f.w, "An error occurred", <<>>), "error")
            ELSE Ret(clear_fields(showinfo(f.w, "Order submitted successfully!")), "done")
        Furs(m) ==
            IF m.ret = "Exception" THEN m
            ELSE Body(process_new_fur_color(m.w, order.fur, answers.fur))
        Materials(c) ==
            IF c.ret = "Exception" THEN c
            ELSE Furs(process_new_materials(c.w, order.materials, answers.materials))
    IN  Materials(company_selected(w, order.company, answers.company))

(* ------------------------------- the store ---------------------------- *)

\* The stamp of the rows written the day before.
OldDate == DateStamp([month |-> 11, day |-> 3, year |-> 2026,
                      hour |-> 16, minute |-> 20, second |-> 0])

InvHeaders ==
    <<S("Materials"), S("Unit"), S("Min. Inv."), S("Reorder"), S("On Order"),
      S("Inventory"), S("Value"),
      S("Fur Color"), S("Min Inv."), S("Reorder."), S("On Order."), S("Inventory."),
      S("Value."),
      S("Thread Colors"), S("Min Inv.."), S("Reorder.."), S("On Order.."),
      S("Inventory.."), S("Value..")>>

\* Row 2 of the inventory sheet, the template row of the computed columns.
InvTemplateRow ==
    <<S("Canvas"), S("yard"), S("5"), S("10"),
      <<"=", "$", "A", "2", "+", "A", "2", "0">>,
      <<"=", "A", "2", "-", "E", "2">>,
      <<"=", "3", "*", "(", "F", "2", "+", "E", "2", ")">>,
      S("White Fur"), S("2"), S("4"),
      <<>>,
      <<"=", "H", "$", "2", "+", "H", "2">>,
      <<"=", "9", "*", "(", "L", "2", "+", "K", "2", ")">>,
      S("Black"), S("1"), S("2"),
      <<"=", "N", "2", "2", "+", "N", "2">>,
      <<"=", "N", "2", "_", "+", "A", "A", "2">>,
      <<"=", "1", "*", "(", "R", "2", "+", "Q", "2", ")">>>>

InvSheet == <<InvHeaders, InvTemplateRow>>

MLogSheet ==
    <<<<S("Material"), S("Yards"), S("IN/OUT"), S("O/R"), S("Date")>>,
      <<S("Canvas"), S("3"), S("IN"), S("Ordered"), OldDate>>>>

TLogSheet ==
    <<<<S("Color"), S("Length (ft)"), S("IN/OUT"), S("Date"), S("O/R")>>,
      <<S("Black"), <<"3", "3", "0", "0", "0">>, S("IN"), OldDate, S("Ordered")>>>>

DirSheet ==
    <<<<S("Company Name"), S("City")>>,
      <<S("Birdie"), S("Reno")>>,
      <<S("Acme"), S("Elko")>>>>

TblSheet ==
    <<<<S("Products")>>, <<S("Putter")>>, <<S("Driver Full")>>>>

\* A sheet with the header named renamed (its column is no longer found).
Renamed(sh, header) ==
    [sh EXCEPT ![1] = [k \in DOMAIN sh[1] |->
                          IF sh[1][k] = header THEN header \o <<" (old)">> ELSE sh[1][k]]]

\* The schemas a session may start from: the full one, or one in which a
\* column the engine needs has been renamed.
Schemas ==
    {[tab |-> "none", header |-> <<>>],
     [tab |-> "inv", header |-> S("Unit")],
     [tab |-> "mlog", header |-> S("Date")],
     [tab |-> "tlog", header |-> S("Length (ft)")],
     [tab |-> "tlog", header |-> S("Date")]}

StoreWith(schema) ==
    [inv |-> IF schema.tab = "inv" THEN Renamed(InvSheet, schema.header) ELSE InvSheet,
     mlog |-> IF schema.tab = "mlog" THEN Renamed(MLogSheet, schema.header) ELSE MLogSheet,
     tlog |-> IF schema.tab = "tlog" THEN Renamed(TLogSheet, schema.header) ELSE TLogSheet,
     dir |-> DirSheet,
     tbl |-> TblSheet,
     MATERIALS_CACHE |-> NoCache,
     FUR_COLORS_CACHE |-> NoCache,
     COMPANIES_CACHE |-> NoCache,
     PRODUCTS_CACHE |-> NoCache,
     THREADS_CACHE |-> NoCache,
     ev |-> <<>>]

\* The construction of the three tabs: OrderEntryApp fills its comboboxes
\* from every cache but the threads', InventoryTab from the threads' and the
\* material union, and InventoryOrderedTab refreshes its tree.
Constructed(w) ==
    LET a == get_companies(w).w
        b == get_products(a).w
        c == get_union_material_list(b).w
        d == get_fur_colors(c).w
        e == get_threads_inventory(d).w
    IN  get_union_material_list(e).w

(* ------------------------------- the state --------------------------- *)

VARIABLES
    inv,                \* worksheet "Material Inventory"
    mlog,               \* worksheet "Material Log"
    tlog,               \* worksheet "Thread Data"
    dir,                \* worksheet "Directory"
    tbl,                \* worksheet "Table"
    MATERIALS_CACHE, FUR_COLORS_CACHE, COMPANIES_CACHE, PRODUCTS_CACHE, THREADS_CACHE,
    tree,               \* the items of InventoryOrderedTab's tree
    inflight            \* the appends in flight, one per caller (SpecRace)

vars == <<inv, mlog, tlog, dir, tbl, MATERIALS_CACHE, FUR_COLORS_CACHE, COMPANIES_CACHE,
          PRODUCTS_CACHE, THREADS_CACHE, tree, inflight>>

World ==
    [inv |-> inv, mlog |-> mlog, tlog |-> tlog, dir |-> dir, tbl |-> tbl,
     MATERIALS_CACHE |-> MATERIALS_CACHE, FUR_COLORS_CACHE |-> FUR_COLORS_CACHE,
     COMPANIES_CACHE |-> COMPANIES_CACHE, PRODUCTS_CACHE |-> PRODUCTS_CACHE,
     THREADS_CACHE |-> THREADS_CACHE, ev |-> <<>>]

\* The sheets and caches become those of w.
Becomes(w) ==
    /\ inv' = w.inv
    /\ mlog' = w.mlog
    /\ tlog' = w.tlog
    /\ dir' = w.dir
    /\ tbl' = w.tbl
    /\ MATERIALS_CACHE' = w.MATERIALS_CACHE
    /\ FUR_COLORS_CACHE' = w.FUR_COLORS_CACHE
    /\ COMPANIES_CACHE' = w.COMPANIES_CACHE
    /\ PRODUCTS_CACHE' = w.PRODUCTS_CACHE
    /\ THREADS_CACHE' = w.THREADS_CACHE

\* The number of users appending to the shared spreadsheet at once.
MaxCallers == 2

Callers == 1..MaxCallers

\* A caller with no append in flight.
Idle ==
    [pc |-> "idle", type |-> "-", new_row |-> 0, writes |-> <<>>, k |-> 0, ret |-> None]

NoCalls == [c \in Callers |-> Idle]

\* The session starts on the store of one of the schemas, the tabs built.
StartsOn(schemas) ==
    \E schema \in schemas :
        LET w == Constructed(StoreWith(schema))
        IN  /\ inv = w.inv
            /\ mlog = w.mlog
            /\ tlog = w.tlog
            /\ dir = w.dir
            /\ tbl = w.tbl
            /\ MATERIALS_CACHE = w.MATERIALS_CACHE
            /\ FUR_COLORS_CACHE = w.FUR_COLORS_CACHE
            /\ COMPANIES_CACHE = w.COMPANIES_CACHE
            /\ PRODUCTS_CACHE = w.PRODUCTS_CACHE
            /\ THREADS_CACHE = w.THREADS_CACHE
            /\ tree = refresh(w)
            /\ inflight = NoCalls

Init == StartsOn(Schemas)

(* ------------------------------ what is typed ------------------------- *)

\* datetime.datetime.now() when a handler of the session stamps a row.
Now == [month |-> 11, day |-> 4, year |-> 2026, hour |-> 9, minute |-> 5, second |-> 7]

MaterialNames == {S("Denim"), S("Faux Fur")}

ThreadNames == {S("Black"), S("black"), S("Red")}

\* What is typed into the order form's material and fur colour fields.
OrderMaterialNames == {S("Denim")}

OrderFurNames == {S("Faux Fur")}

CompanyNames == {S("Caddy")}

Statuses == {S("Ordered"), S("Received")}

Quantities == {S("2")}

\* The numbers of rows filled in on an inventory form (it has 15).
BatchSizes == {1}

Forms(names) ==
    UNION {[1..n -> [name : names, status : Statuses, qty : Quantities]] :
              n \in BatchSizes}

\* The selections of a tree: its items, in order, each taken or left.
RECURSIVE Selections(_)
Selections(items) ==
    IF items = <<>> THEN {<<>>}
    ELSE LET rest == Selections(Tail(items))
         IN  rest \cup {<<Head(items)>> \o s : s \in rest}

\* What a NewCompanyDialog returns for the name typed, or nothing (cancelled).
CompanyAnswers(name) ==
    {[response |-> FALSE, cancelled |-> TRUE, result |-> [name |-> <<>>, city |-> <<>>]],
     [response |-> TRUE, cancelled |-> TRUE, result |-> [name |-> <<>>, city |-> <<>>]],
     [response |-> TRUE, cancelled |-> FALSE,
      result |-> [name |-> name, city |-> S("Reno")]]}

\* The rows the session has added to the sheets of w.
Added(w) ==
    (Len(w.inv) - Len(InvSheet)) + (Len(w.mlog) - Len(MLogSheet))
        + (Len(w.tlog) - Len(TLogSheet)) + (Len(w.dir) - Len(DirSheet))

\* The prompt is a collaborator consulted only when a name is not found: the
\* answers to questions never asked are left at the first of Answers.
Unasked == [response |-> FALSE, dialog |-> DialogCancelled]

OnlyAsked(calls, answers) ==
    \A i \in DOMAIN answers :
        (i > Len(calls) \/ calls[i].reply = "-") => answers[i] = Unasked

(* -------------------------------- actions ----------------------------- *)

UpdateMaterialEntries ==
    \E form \in Forms(MaterialNames) :
        \E answers \in [DOMAIN form -> Answers] :
            \E r \in {update_material_entries(World, form, answers, Now)} :
                /\ OnlyAsked(r.calls, answers)
                /\ Added(r.w) <= MaxRows
                /\ Becomes(r.w)
                /\ tree' = r.tree
                /\ UNCHANGED inflight

UpdateThreadEntries ==
    \E form \in Forms(ThreadNames) :
        \E answers \in [DOMAIN form -> Answers] :
            \E r \in {update_thread_entries(World, form, answers, Now)} :
                /\ OnlyAsked(r.calls, answers)
                /\ Added(r.w) <= MaxRows
                /\ Becomes(r.w)
                /\ tree' = r.tree
                /\ UNCHANGED inflight

ReceiveOrders ==
    \E selected \in Selections(tree) :
        \E r \in {receive_orders(World, tree, selected, Now)} :
            /\ Becomes(r.w)
            /\ tree' = r.tree
            /\ UNCHANGED inflight

\* The order form's FocusOut callbacks; one that raises leaves what it did.
CompanySelected ==
    \E name \in CompanyNames :
        \E answer \in CompanyAnswers(name) :
            \E r \in {company_selected(World, name, answer)} :
                /\ Added(r.w) <= MaxRows
                /\ Becomes(r.w)
                /\ UNCHANGED <<tree, inflight>>

MaterialSelected ==
    \E mat \in OrderMaterialNames :
        \E answer \in Answers :
            \E r \in {material_selected(World, mat, answer)} :
                /\ Added(r.w) <= MaxRows
                /\ Becomes(r.w)
                /\ UNCHANGED <<tree, inflight>>

FurColorSelected ==
    \E fur \in OrderFurNames :
        \E answer \in Answers :
            \E r \in {fur_color_selected(World, fur, answer)} :
                /\ Added(r.w) <= MaxRows
                /\ Becomes(r.w)
                /\ UNCHANGED <<tree, inflight>>

ClearFields ==
    /\ Becomes(clear_fields(World))
    /\ UNCHANGED <<tree, inflight>>

\* The largest number of cones a thread row is submitted with.
MaxCones == 12

\* What is typed into an order form: the company, the material fields (the
\* form has six) and the fur colour.
Orders ==
    [company : CompanyNames,
     materials : {<<m, m>> : m \in OrderMaterialNames},
     fur : OrderFurNames]

\* The replies to the pop-ups of an order's submission.
OrderAnswers(order) ==
    [company : CompanyAnswers(order.company),
     materials : [DOMAIN order.materials -> Answers \ {Unasked}],
     fur : Answers \ {Unasked}]

SubmitOrder ==
    \E order \in Orders :
        \E answers \in OrderAnswers(order), valid \in BOOLEAN :
            \E r \in {submit_order(World, order, answers, valid)} :
                /\ Added(r.w) <= MaxRows
                /\ Becomes(r.w)
                /\ UNCHANGED <<tree, inflight>>

Next ==
    \/ UpdateMaterialEntries
    \/ UpdateThreadEntries
    \/ ReceiveOrders
    \/ CompanySelected
    \/ MaterialSelected
    \/ FurColorSelected
    \/ SubmitOrder
    \/ ClearFields

Spec == Init /\ [][Next]_vars

(* ------------------- a store shared with other users ------------------ *)

\* Another user of the spreadsheet deletes the last row of a movement table.
OtherUserDeletesRow ==
    /\ \/ /\ Len(mlog) >= 2
          /\ mlog' = SubSeq(mlog, 1, Len(mlog) - 1)
          /\ UNCHANGED tlog
       \/ /\ Len(tlog) >= 2
          /\ tlog' = SubSeq(tlog, 1, Len(tlog) - 1)
          /\ UNCHANGED mlog
    /\ UNCHANGED <<inv, dir, tbl, MATERIALS_CACHE, FUR_COLORS_CACHE, COMPANIES_CACHE,
                   PRODUCTS_CACHE, THREADS_CACHE, tree, inflight>>

\* Another user renames the status column of a movement table.
OtherUserRenamesHeader ==
    /\ \/ /\ InList(S("O/R"), mlog[1])
          /\ mlog' = Renamed(mlog, S("O/R"))
          /\ UNCHANGED tlog
       \/ /\ InList(S("O/R"), tlog[1])
          /\ tlog' = Renamed(tlog, S("O/R"))
          /\ UNCHANGED mlog
    /\ UNCHANGED <<inv, dir, tbl, MATERIALS_CACHE, FUR_COLORS_CACHE, COMPANIES_CACHE,
                   PRODUCTS_CACHE, THREADS_CACHE, tree, inflight>>

NextShared ==
    \/ ReceiveOrders
    \/ OtherUserDeletesRow
    \/ OtherUserRenamesHeader

\* The Inventory Ordered tab on a spreadsheet that other users edit.
SpecShared == StartsOn({[tab |-> "none", header |-> <<>>]}) /\ [][NextShared]_vars

(* ------------------------ the dimension caches alone ------------------ *)

Dimensions == {"Materials", "Fur Color", "Thread Colors", "Company Name", "Products"}

\* The name another user adds to the column of a dimension.
NewMember(d) ==
    CASE d = "Materials" -> S("Denim")
      [] d = "Fur Color" -> S("Faux Fur")
      [] d = "Thread Colors" -> S("Red")
      [] d = "Company Name" -> S("Caddy")
      [] d = "Products" -> S("Towel")

\* The sheet and the column that back a dimension (0: no such header).
SheetOf(w, d) ==
    CASE d = "Company Name" -> w.dir
      [] d = "Products" -> w.tbl
      [] OTHER -> w.inv

ColumnOf(w, d) ==
    LET headers == SheetOf(w, d)[1]
    IN  IF \E c \in DOMAIN headers : headers[c] = S(d)
        THEN CHOOSE c \in DOMAIN headers : headers[c] = S(d)
        ELSE 0

\* The store's current non-empty values of a dimension.
Members(w, d) ==
    LET sh == SheetOf(w, d)
        c == ColumnOf(w, d)
    IN  IF c = 0 THEN {} ELSE {sh[r][c] : r \in 2..Len(sh)} \ {<<>>}

CacheOf(w, d) ==
    CASE d = "Materials" -> w.MATERIALS_CACHE
      [] d = "Fur Color" -> w.FUR_COLORS_CACHE
      [] d = "Thread Colors" -> w.THREADS_CACHE
      [] d = "Company Name" -> w.COMPANIES_CACHE
      [] d = "Products" -> w.PRODUCTS_CACHE

\* get() and invalidate() of a dimension: the module's get_* and clear_*.
get(w, d) ==
    CASE d = "Materials" -> get_materials(w)
      [] d = "Fur Color" -> get_fur_colors(w)
      [] d = "Thread Colors" -> get_threads_inventory(w)
      [] d = "Company Name" -> get_companies(w)
      [] d = "Products" -> get_products(w)

invalidate(w, d) ==
    CASE d = "Materials" -> clear_materials_cache(w)
      [] d = "Fur Color" -> clear_fur_colors_cache(w)
      [] d = "Thread Colors" -> clear_threads_cache(w)
      [] d = "Company Name" -> clear_companies_cache(w)
      [] d = "Products" -> clear_products_cache(w)

\* Another user types a new name under the header of a dimension, in the
\* first row below the sheet's last.
OtherUserAddsMember ==
    \E d \in Dimensions :
        LET c == ColumnOf(World, d)
            sh == SheetOf(World, d)
            edited == update_cell(sh, Len(sh) + 1, c, NewMember(d))
        IN  /\ c # 0
            /\ NewMember(d) \notin Members(World, d)
            /\ Becomes(CASE d = "Company Name" -> [World EXCEPT !.dir = edited]
                         [] d = "Products" -> [World EXCEPT !.tbl = edited]
                         [] OTHER -> [World EXCEPT !.inv = edited])
            /\ UNCHANGED <<tree, inflight>>

Invalidate ==
    \E d \in Dimensions :
        /\ Becomes(invalidate(World, d))
        /\ UNCHANGED <<tree, inflight>>

Get ==
    \E d \in Dimensions :
        /\ Becomes(get(World, d).w)
        /\ UNCHANGED <<tree, inflight>>

NextCache ==
    \/ OtherUserAddsMember
    \/ Invalidate
    \/ Get

CacheSchemas ==
    {[tab |-> "none", header |-> <<>>],
     [tab |-> "inv", header |-> S("Fur Color")]}

SpecCache == StartsOn(CacheSchemas) /\ [][NextCache]_vars

(* ------------------------- the scan on its own ------------------------ *)

\* The status cells and the rows of the movement tables scanned.
ScanStatuses ==
    {S("Ordered"), S("ORDERED"), <<" ", "ordered", " ">>, S("Received"),
     <<"Ordered", "?">>}

MaterialRows ==
    {<<S("Canvas"), S("3"), S("IN"), st, OldDate>> : st \in ScanStatuses}

ThreadRows ==
    {<<S("Black"), len, S("IN"), OldDate, st>> :
        len \in {<<"3", "3", "0", "0", "0">>, <<"n", "/", "a">>},
        st \in {S("Ordered"), <<"ordered", " ">>, S("Received")}}

\* The tables of at most n data rows, under headers of which one of those
\* given, or none, is renamed.
Tables(headers, rows, n, renamable) ==
    LET full == UNION {{<<headers>> \o body : body \in [1..k -> rows]} : k \in 0..n}
    IN  full \cup {Renamed(sh, h) : sh \in full, h \in renamable}

\* A worksheet that is not in the spreadsheet (worksheet() raises) or holds
\* no cell (get_all_values() returns []).
NoTable == <<>>

\* The Inventory Ordered tab about to be built on some movement tables.
InitScan ==
    LET w == Constructed(StoreWith([tab |-> "none", header |-> <<>>]))
    IN  /\ inv = w.inv
        /\ dir = w.dir
        /\ tbl = w.tbl
        /\ mlog \in Tables(MLogSheet[1], MaterialRows, MaxScan, {S("Date"), S("O/R")})
                        \cup {NoTable}
        /\ tlog \in Tables(TLogSheet[1], ThreadRows, MaxScan - 1, {S("Length (ft)")})
                        \cup {NoTable}
        /\ MATERIALS_CACHE = w.MATERIALS_CACHE
        /\ FUR_COLORS_CACHE = w.FUR_COLORS_CACHE
        /\ COMPANIES_CACHE = w.COMPANIES_CACHE
        /\ PRODUCTS_CACHE = w.PRODUCTS_CACHE
        /\ THREADS_CACHE = w.THREADS_CACHE
        /\ tree = <<>>
        /\ inflight = NoCalls

\* InventoryOrderedTab.refresh
Refresh ==
    /\ tree' = refresh(World)
    /\ UNCHANGED inflight
    /\ UNCHANGED <<inv, mlog, tlog, dir, tbl, MATERIALS_CACHE, FUR_COLORS_CACHE,
                   COMPANIES_CACHE, PRODUCTS_CACHE, THREADS_CACHE>>

SpecScan == InitScan /\ [][Refresh]_vars

(* ------------------- appends of several callers at once --------------- *)

(***************************************************************************)
(* update_material_log and post_thread_data are sequences of requests to   *)
(* the spreadsheet: the read of the header row and of the key column, then *)
(* one update_cell per field.  Nothing holds the sheet between them, so    *)
(* the requests of two users interleave.  The header row is changed by no  *)
(* append, so its read and the key column's are taken as one step.         *)
(***************************************************************************)

\* Faulty variant: the count of the key column taken for the row to write.
NextRow_zero_based(sh, col) == Len(col_values(sh, col))

\* new_row = len(ws.col_values(col)) + 1
NextRow(sh, col) == Len(col_values(sh, col)) + 1

\* What update_material_log has decided when its reads are done: the value
\* it will return, the row it will write and its writes <<column, value>> in
\* the order of the code.
MaterialAppendPlan(sh, material, qty, order_status, date_stamp) ==
    LET headers == row_values(sh, 1)
        required == <<S("Material"), S("Yards"), S("IN/OUT"), S("O/R"), S("Date")>>
    IN  IF FirstMissing(required, headers) # 0
        THEN [ret |-> None, new_row |-> 0, writes |-> <<>>]
        ELSE LET mat_col == ListIndex(headers, S("Material")) + 1
                 new_row == NextRow(sh, mat_col)
             IN  [ret |-> new_row, new_row |-> new_row,
                  writes |-> <<<<mat_col, material>>,
                               <<ListIndex(headers, S("Yards")) + 1, qty>>,
                               <<ListIndex(headers, S("IN/OUT")) + 1, S("IN")>>,
                               <<ListIndex(headers, S("O/R")) + 1, order_status>>,
                               <<ListIndex(headers, S("Date")) + 1, date_stamp>>>>]

\* The same for post_thread_data.
ThreadAppendPlan(sh, thread_color, thread_qty, thread_or, date_stamp) ==
    LET parsed == ParseNum(thread_qty)
        new_qty == IF parsed # -1 THEN parsed * ConeLength ELSE 0
        headers == row_values(sh, 1)
        color_idx == find_exact_header_index(headers, S("Color"))
        length_idx == find_exact_header_index(headers, S("Length (ft)"))
        inout_idx == find_exact_header_index(headers, S("IN/OUT"))
        date_idx == find_exact_header_index(headers, S("Date"))
        or_idx == find_exact_header_index(headers, S("O/R"))
    IN  IF color_idx = None \/ length_idx = None \/ inout_idx = None
        THEN [ret |-> None, new_row |-> 0, writes |-> <<>>]
        ELSE LET new_row == NextRow(sh, color_idx + 1)
             IN  [ret |-> new_row, new_row |-> new_row,
                  writes |-> <<<<color_idx + 1, thread_color>>,
                               <<length_idx + 1, IntStr(new_qty)>>,
                               <<inout_idx + 1, S("IN")>>>>
                             \o (IF date_idx # None
                                 THEN <<<<date_idx + 1, date_stamp>>>> ELSE <<>>)
                             \o (IF or_idx # None
                                 THEN <<<<or_idx + 1, thread_or>>>> ELSE <<>>)]

\* The movements the callers post.
RaceEntries ==
    [type : {"Material"}, name : {S("Denim"), S("Hemp")}, qty : Quantities,
     status : Statuses]
    \cup [type : {"Thread"}, name : {S("Red")}, qty : Quantities, status : Statuses]

\* Caller c enters update_material_log or post_thread_data and does its
\* reads; with a header missing it returns None at once.
AppendRead(c) ==
    /\ inflight[c].pc = "idle"
    /\ \E e \in RaceEntries :
          \E plan \in {IF e.type = "Material"
                       THEN MaterialAppendPlan(mlog, e.name, e.qty, e.status,
                                               DateStamp(Now))
                       ELSE ThreadAppendPlan(tlog, e.name, e.qty, e.status,
                                             DateStamp(Now))} :
              inflight' = [inflight EXCEPT ![c] =
                              [pc |-> IF plan.ret = None THEN "done" ELSE "write",
                               type |-> e.type, new_row |-> plan.new_row,
                               writes |-> plan.writes, k |-> 1, ret |-> plan.ret]]
    /\ UNCHANGED <<inv, mlog, tlog, dir, tbl, MATERIALS_CACHE, FUR_COLORS_CACHE,
                   COMPANIES_CACHE, PRODUCTS_CACHE, THREADS_CACHE, tree>>

\* Caller c sends its next update_cell; after the last one it returns new_row.
AppendWrite(c) ==
    /\ inflight[c].pc = "write"
    /\ LET call == inflight[c]
           cell == call.writes[call.k]
       IN  /\ IF call.type = "Material"
              THEN /\ mlog' = update_cell(mlog, call.new_row, cell[1], cell[2])
                   /\ UNCHANGED tlog
              ELSE /\ tlog' = update_cell(tlog, call.new_row, cell[1], cell[2])
                   /\ UNCHANGED mlog
           /\ inflight' = [inflight EXCEPT ![c].k = call.k + 1,
                              ![c].pc = IF call.k = Len(call.writes)
                                        THEN "done" ELSE "write"]
    /\ UNCHANGED <<inv, dir, tbl, MATERIALS_CACHE, FUR_COLORS_CACHE,
                   COMPANIES_CACHE, PRODUCTS_CACHE, THREADS_CACHE, tree>>

NextRace == \E c \in Callers : AppendRead(c) \/ AppendWrite(c)

\* Several users, each posting one movement to the shared spreadsheet.
SpecRace == StartsOn({[tab |-> "none", header |-> <<>>]}) /\ [][NextRace]_vars

(* --------------------------- the ledgers alone ------------------------ *)

NextLedger ==
    \/ UpdateMaterialEntries
    \/ UpdateThreadEntries
    \/ ReceiveOrders

\* The Inventory and Inventory Ordered tabs, on the store as laid out or
\* with the length column of Thread Data renamed.
SpecLedger ==
    /\ StartsOn({[tab |-> "none", header |-> <<>>],
                 [tab |-> "tlog", header |-> S("Length (ft)")]})
    /\ [][NextLedger]_vars

(* ------------------- key columns with blank cells --------------------- *)

\* The number of rows a sheet holds below its first data row when the
\* session starts.
MaxGap == 2

\* Which of those rows hold a name in the key column.
GapPatterns == UNION {[1..k -> BOOLEAN] : k \in 0..MaxGap}

\* A row of a movement table left by an earlier session, with or without
\* its name.
LedgerGapRow(headers, key, name, filled) ==
    [c \in DOMAIN headers |->
        CASE headers[c] = key -> IF filled THEN name ELSE <<>>
          [] headers[c] = S("IN/OUT") -> S("IN")
          [] headers[c] = S("O/R") -> S("Received")
          [] headers[c] = S("Date") -> OldDate
          [] OTHER -> S("1")]

\* Row 2 + k of the inventory sheet: a material's record, or (no material in
\* that row) a fur colour's and a thread colour's.
InvGapRow(k, filled) ==
    [c \in DOMAIN InvHeaders |->
        CASE InvHeaders[c] = S("Materials") /\ filled
                -> <<S("denim"), S("Hemp"), S("Jute")>>[k]
          [] InvHeaders[c] = S("Unit") /\ filled -> S("yard")
          [] InvHeaders[c] = S("Fur Color") /\ ~filled
                -> <<S("Grey Fur"), S("Red Fur"), S("Blue Fur")>>[k]
          [] InvHeaders[c] = S("Thread Colors") /\ ~filled
                -> <<<<" ", "red">>, S("Navy"), S("Teal")>>[k]
          [] OTHER -> <<>>]

GapRows(tab, pattern) ==
    [k \in DOMAIN pattern |->
        CASE tab = "inv" -> InvGapRow(k, pattern[k])
          [] tab = "mlog" -> LedgerGapRow(MLogSheet[1], S("Material"), S("Canvas"), pattern[k])
          [] tab = "tlog" -> LedgerGapRow(TLogSheet[1], S("Color"), S("Black"), pattern[k])]

\* A session starts on a store one of whose sheets holds such rows.
InitGaps ==
    \E tab \in {"inv", "mlog", "tlog"} :
        \E pattern \in GapPatterns :
            LET store == StoreWith([tab |-> "none", header |-> <<>>])
                w == Constructed([store EXCEPT ![tab] = @ \o GapRows(tab, pattern)])
            IN  /\ inv = w.inv
                /\ mlog = w.mlog
                /\ tlog = w.tlog
                /\ dir = w.dir
                /\ tbl = w.tbl
                /\ MATERIALS_CACHE = w.MATERIALS_CACHE
                /\ FUR_COLORS_CACHE = w.FUR_COLORS_CACHE
                /\ COMPANIES_CACHE = w.COMPANIES_CACHE
                /\ PRODUCTS_CACHE = w.PRODUCTS_CACHE
                /\ THREADS_CACHE = w.THREADS_CACHE
                /\ tree = refresh(w)
                /\ inflight = NoCalls

\* InventoryTab.update_material_entries on such a store.
UpdateMaterialEntriesOnGaps ==
    \E form \in Forms(MaterialNames) :
        \E answers \in [DOMAIN form -> Answers] :
            \E r \in {update_material_entries(World, form, answers, Now)} :
                /\ OnlyAsked(r.calls, answers)
                /\ Added(r.w) <= MaxGap + 1
                /\ Becomes(r.w)
                /\ tree' = r.tree
                /\ UNCHANGED inflight

\* InventoryTab.update_thread_entries on such a store.
UpdateThreadEntriesOnGaps ==
    \E form \in Forms(ThreadNames) :
        \E answers \in [DOMAIN form -> Answers] :
            \E r \in {update_thread_entries(World, form, answers, Now)} :
                /\ OnlyAsked(r.calls, answers)
                /\ Added(r.w) <= MaxGap + 1
                /\ Becomes(r.w)
                /\ tree' = r.tree
                /\ UNCHANGED inflight

NextGaps ==
    \/ UpdateMaterialEntriesOnGaps
    \/ UpdateThreadEntriesOnGaps

SpecGaps == InitGaps /\ [][NextGaps]_vars

(* -------------------- a store call that fails ------------------------- *)

(***************************************************************************)
(* Every update_cell is a request to the spreadsheet service and may raise *)
(* (gspread's APIError, a lost connection).  update_material_log and       *)
(* process_material_entry have no try statement; the one around the loop   *)
(* of update_material_entries catches the exception and shows it.  The     *)
(* handler is taken row by row and, within the append of a row, write by   *)
(* write, so that a write may fail.  Before the append of a row nothing    *)
(* has written the Material Log, so the world at that point is the world   *)
(* process_material_entry leaves with the Material Log as it was.          *)
(***************************************************************************)

\* The largest number of rows filled in on the form of such a batch.
MaxBatch == 2

BatchForms ==
    UNION {[1..n -> [name : {S("Canvas"), S("Denim")}, status : {S("Ordered")},
                     qty : Quantities]] : n \in 1..MaxBatch}

BatchAnswers == {[response |-> FALSE, dialog |-> DialogCancelled],
                 [response |-> TRUE, dialog |-> DialogFilled]}

\* Faulty variant: the exception caught inside the loop, which goes on with
\* the next row of the form.
AfterStoreError_next_row(batch) ==
    [batch EXCEPT !.error = TRUE,
                  !.pc = IF batch.i = Len(batch.form) THEN "done" ELSE "row",
                  !.i = batch.i + 1]

\* except Exception as e: showerror; the loop is left and nothing of the
\* try block runs any more.
AfterStoreError(batch) == [batch EXCEPT !.error = TRUE, !.pc = "failed"]

\* The user presses Submit on a filled form.
BatchBegins ==
    /\ inflight = NoCalls
    /\ \E form \in BatchForms :
          \E answers \in [DOMAIN form -> BatchAnswers] :
              inflight' = <<[pc |-> "row", form |-> form, answers |-> answers, i |-> 1,
                             new_row |-> 0, writes |-> <<>>, k |-> 0, error |-> FALSE]>>
    /\ UNCHANGED <<inv, mlog, tlog, dir, tbl, MATERIALS_CACHE, FUR_COLORS_CACHE,
                   COMPANIES_CACHE, PRODUCTS_CACHE, THREADS_CACHE, tree>>

\* process_material_entry for row i up to the reads of update_material_log;
\* on None the loop breaks and the handler ends (info boxes, refresh).
BatchRowBegins ==
    /\ inflight # NoCalls
    /\ inflight[1].pc = "row"
    /\ LET batch == inflight[1]
           row == batch.form[batch.i]
       IN  \E r \in {process_material_entry(World, row.name, row.qty, row.status, Now,
                                            batch.answers[batch.i])} :
             IF r.ret = None
             THEN /\ Becomes(r.w)
                  /\ tree' = refresh(r.w)
                  /\ inflight' = <<[batch EXCEPT !.pc = "done"]>>
             ELSE \E plan \in {MaterialAppendPlan(mlog, row.name, row.qty, row.status,
                                                  DateStamp(Now))} :
                      /\ Becomes([r.w EXCEPT !.mlog = mlog])
                      /\ inflight' = <<[batch EXCEPT !.pc = "write", !.k = 1,
                                                      !.new_row = plan.new_row,
                                                      !.writes = plan.writes]>>
                      /\ UNCHANGED tree

\* The next update_cell of the append succeeds; after the last one of the
\* last row the handler ends.
BatchWrite ==
    /\ inflight # NoCalls
    /\ inflight[1].pc = "write"
    /\ LET batch == inflight[1]
           cell == batch.writes[batch.k]
           last == batch.k = Len(batch.writes)
       IN  /\ mlog' = update_cell(mlog, batch.new_row, cell[1], cell[2])
           /\ inflight' = <<[batch EXCEPT !.k = batch.k + 1,
                                !.pc = IF ~last THEN "write"
                                       ELSE IF batch.i = Len(batch.form) THEN "done"
                                       ELSE "row",
                                !.i = IF last THEN batch.i + 1 ELSE batch.i]>>
           /\ tree' = IF last /\ batch.i = Len(batch.form)
                      THEN refresh([World EXCEPT !.mlog = mlog'])
                      ELSE tree
    /\ UNCHANGED <<inv, tlog, dir, tbl, MATERIALS_CACHE, FUR_COLORS_CACHE,
                   COMPANIES_CACHE, PRODUCTS_CACHE, THREADS_CACHE>>

\* The next update_cell of the append raises.
BatchStoreRaises ==
    /\ inflight # NoCalls
    /\ inflight[1].pc = "write"
    /\ inflight' = <<AfterStoreError(inflight[1])>>
    /\ UNCHANGED <<inv, mlog, tlog, dir, tbl, MATERIALS_CACHE, FUR_COLORS_CACHE,
                   COMPANIES_CACHE, PRODUCTS_CACHE, THREADS_CACHE, tree>>

NextFail ==
    \/ BatchBegins
    \/ BatchRowBegins
    \/ BatchWrite
    \/ BatchStoreRaises

\* One submission of the material form on a store whose calls may fail.
SpecFail == StartsOn({[tab |-> "none", header |-> <<>>]}) /\ [][NextFail]_vars

(* ------------------- template formulas of any shape ------------------- *)

\* The longest template formula drawn character by character.
MaxFormula == 3

FormulaAtoms == {"=", "$", "C", "2", "0", "(", "_"}

\* The formulas a template cell may hold: none, the short texts over
\* FormulaAtoms, and some a sheet is likely to hold.
Templates ==
    UNION {[1..k -> FormulaAtoms] : k \in 0..MaxFormula}
        \cup {<<"=", "C", "2", "-", "D", "2">>,
              <<"=", "$", "C", "2", "-", "D", "2">>,
              <<"=", "C", "2", "0", "+", "C", "1", "2">>,
              <<"=", "A", "T", "A", "N", "2", "(", "C", "2", ",", "D", "2", ")">>,
              <<"=", "Q", "2", "!", "B", "5", "+", "E", "2">>}

\* The columns whose template cell is cloned: On Order and Inventory of the
\* materials, of the fur colours and of the thread colours.
ClonedHeaders ==
    {S("On Order"), S("Inventory"), S("On Order."), S("Inventory."),
     S("On Order.."), S("Inventory..")}

\* A session starts on an inventory sheet whose template row holds some
\* formula in its six cloned columns.
InitClone ==
    \E t \in Templates :
        LET store == StoreWith([tab |-> "none", header |-> <<>>])
            w == Constructed(
                   [store EXCEPT !.inv[2] =
                       [c \in DOMAIN @ |-> IF InvHeaders[c] \in ClonedHeaders THEN t
                                           ELSE @[c]]])
        IN  /\ inv = w.inv
            /\ mlog = w.mlog
            /\ tlog = w.tlog
            /\ dir = w.dir
            /\ tbl = w.tbl
            /\ MATERIALS_CACHE = w.MATERIALS_CACHE
            /\ FUR_COLORS_CACHE = w.FUR_COLORS_CACHE
            /\ COMPANIES_CACHE = w.COMPANIES_CACHE
            /\ PRODUCTS_CACHE = w.PRODUCTS_CACHE
            /\ THREADS_CACHE = w.THREADS_CACHE
            /\ tree = refresh(w)
            /\ inflight = NoCalls

SpecClone == InitClone /\ [][UpdateMaterialEntries]_vars

(* --------------------------- checked properties ----------------------- *)

\* A loaded cache of w holds the current contents of its backing column.
CacheFresh(w) ==
    \A d \in Dimensions : CacheOf(w, d).loaded => Range(CacheOf(w, d).val) = Members(w, d)

\* The dimensions that gained a member from w to v have no cache in v.
AddedLeavesAbsent(w, v) ==
    \A d \in Dimensions : Members(v, d) # Members(w, d) => ~CacheOf(v, d).loaded

\* C1: with the engine as the only writer, every loaded dimension cache
\* equals the contents of its backing column, and each onboarding operation
\* (of a material or fur colour, of a thread colour, of a company) that adds a
\* member to a dimension leaves the cache of that dimension absent.
C1_CachesAbsentOrCurrent ==
    /\ CacheFresh(World)
    /\ \A name \in MaterialNames, status \in Statuses, answer \in Answers :
          AddedLeavesAbsent(World,
              process_material_entry(World, name, S("2"), status, Now, answer).w)
    /\ \A name \in ThreadNames, answer \in Answers :
          AddedLeavesAbsent(World, process_thread_entry(World, name, S("2"), answer).w)
    /\ \A name \in CompanyNames :
          AddedLeavesAbsent(World,
              create_new_company(World, [name |-> name, city |-> S("Reno")]))

\* A movement has onboarded Denim: it is in the Materials column, its
\* movement in the log, and the materials cache is absent.
C1_Witness ==
    /\ S("Denim") \in Members(World, "Materials")
    /\ \E r \in 2..Len(mlog) : mlog[r][1] = S("Denim")
    /\ ~MATERIALS_CACHE.loaded

\* C2: for every dimension, invalidate() followed by get() returns exactly
\* the non-empty values the store now holds for it, whatever the cache held;
\* and while the cache is loaded, get() returns the cached value and leaves
\* it in place, whatever the store holds.
C2_InvalidateThenGetReloads ==
    \A d \in Dimensions :
        /\ Range(get(invalidate(World, d), d).ret) = Members(World, d)
        /\ CacheOf(World, d).loaded =>
              /\ get(World, d).ret = CacheOf(World, d).val
              /\ CacheOf(get(World, d).w, d) = CacheOf(World, d)

\* Another user has added a member to a dimension, and its cache, loaded at
\* construction without it, now holds it: it was cleared and loaded again.
C2_Witness ==
    \E d \in Dimensions :
        /\ NewMember(d) \in Members(World, d)
        /\ CacheOf(World, d).loaded
        /\ Range(CacheOf(World, d).val) = Members(World, d)

\* The cell of row r of sheet sh under the header named (<<>> if none).
CellUnder(sh, r, header) ==
    IF r <= Len(sh) /\ \E c \in DOMAIN sh[1] : sh[1][c] = header
    THEN sh[r][CHOOSE c \in DOMAIN sh[1] : sh[1][c] = header]
    ELSE <<>>

LedgerOf(w, type) == IF type = "Material" THEN w.mlog ELSE w.tlog

\* Row r of the ledger of that type is pending in the tree given.
Listed(items, type, r) ==
    \E k \in DOMAIN items : items[k].type = type /\ items[k].row = r

\* The entries of a ledger of w marked Received.
ReceivedRows(w, type) ==
    {r \in 2..Len(LedgerOf(w, type)) :
        CellUnder(LedgerOf(w, type), r, S("O/R")) = S("Received")}

\* C5: receive on references the pending list holds leaves each of their
\* rows with status Received and the date of that receive call and off the
\* pending list; and a row marked Received stays Received, and off the
\* pending list, through every later operation.
C5_ReceivedStaysReceived ==
    /\ [](\A selected \in Selections(tree) \ {<<>>} :
            LET r == receive_orders(World, tree, selected, Now)
            IN  \A k \in DOMAIN selected :
                    LET item == selected[k]
                        sh == LedgerOf(r.w, item.type)
                    IN  /\ CellUnder(sh, item.row, S("O/R")) = S("Received")
                        /\ CellUnder(sh, item.row, S("Date")) = DateStamp(Now)
                        /\ ~Listed(r.tree, item.type, item.row)
                        /\ ~Listed(refresh(r.w), item.type, item.row))
    /\ [][\A type \in {"Material", "Thread"} :
            \A r \in ReceivedRows(World, type) :
                /\ r \in ReceivedRows(World, type)'
                /\ ~Listed(tree', type, r)]_vars

\* The order of the day before has been received, today's stamp on it, it
\* is off the pending list, and a movement has been appended since or before.
C5_Witness ==
    /\ CellUnder(mlog, 2, S("O/R")) = S("Received")
    /\ CellUnder(mlog, 2, S("Date")) = DateStamp(Now)
    /\ ~Listed(tree, "Material", 2)
    /\ Len(mlog) > 2

\* The scan of a table reads the columns Date, name and quantity.
Readable(sh, name_header, qty_header) ==
    /\ sh # <<>>
    /\ {S("Date"), name_header, qty_header} \subseteq Range(sh[1])

\* The pending orders are those of the rows of sh that is_ordered accepts,
\* one each, with the row's number, name and date; none if unreadable.
PendingOf(pending, type, sh, name_header, readable, is_ordered(_)) ==
    /\ \A k \in DOMAIN pending :
          pending[k].type = type =>
              /\ readable
              /\ pending[k].row \in 2..Len(sh)
              /\ pending[k].name = CellUnder(sh, pending[k].row, name_header)
              /\ pending[k].date = CellUnder(sh, pending[k].row, S("Date"))
    /\ readable =>
          \A r \in 2..Len(sh) :
              Cardinality({k \in DOMAIN pending :
                              pending[k].type = type /\ pending[k].row = r})
                  = IF is_ordered(CellUnder(sh, r, S("O/R"))) THEN 1 ELSE 0

OrderedIgnoringCase(cell) == lower(cell) = <<"ordered">>

OrderedTrimmedIgnoringCase(cell) == lower(strip(cell)) = <<"ordered">>

\* C6 (as amended): loadPending returns exactly one PendingOrder for each
\* data row of a movement table whose status cell, surrounding whitespace
\* removed, equals "ordered" ignoring case, provided the table has the Date,
\* name and quantity columns the scan reads, and nothing for any other row or
\* for a table without one of these columns; each PendingOrder carries the
\* row's own number, kind, name and date.
C6_PendingAreTrimmedOrderedRows ==
    LET pending == load_orders_from_sheets(World)
    IN  /\ PendingOf(pending, "Material", mlog, S("Material"),
                     Readable(mlog, S("Material"), S("Yards")),
                     OrderedTrimmedIgnoringCase)
        /\ PendingOf(pending, "Thread", tlog, S("Color"),
                     Readable(tlog, S("Color"), S("Length (ft)")),
                     OrderedTrimmedIgnoringCase)
        /\ \A k \in DOMAIN pending : pending[k].type \in {"Material", "Thread"}

\* C6 (as claimed): one PendingOrder for each data row whose status cell
\* equals "ordered" ignoring case, nothing for a row of any other status.
C6_PendingAreOrderedRows ==
    LET pending == load_orders_from_sheets(World)
    IN  /\ PendingOf(pending, "Material", mlog, S("Material"), TRUE,
                     OrderedIgnoringCase)
        /\ PendingOf(pending, "Thread", tlog, S("Color"), TRUE, OrderedIgnoringCase)

\* The tree lists a row whose status is in capitals and one whose status is
\* padded, a third row of the same table being left out.
C6_Witness ==
    /\ \E k \in DOMAIN tree :
          /\ tree[k].type = "Material"
          /\ CellUnder(mlog, tree[k].row, S("O/R")) = S("ORDERED")
    /\ \E k \in DOMAIN tree :
          /\ tree[k].type = "Thread"
          /\ CellUnder(tlog, tree[k].row, S("O/R")) = <<"ordered", " ">>
    /\ \E r \in 2..Len(mlog) : ~Listed(tree, "Material", r)

Declined == [response |-> FALSE, dialog |-> DialogCancelled]

Accepted == [response |-> TRUE, dialog |-> DialogFilled]

SameStore(w, v) ==
    /\ w.inv = v.inv
    /\ w.mlog = v.mlog
    /\ w.tlog = v.tlog
    /\ w.dir = v.dir
    /\ w.tbl = v.tbl

SameCaches(w, v) == \A d \in Dimensions : CacheOf(w, d) = CacheOf(v, d)

\* The name of a movement is that of no member.
UnknownMaterial(w, name) ==
    name \notin Members(w, "Materials") \cup Members(w, "Fur Color")

UnknownThread(w, name) ==
    \A m \in Members(w, "Thread Colors") : lower(strip(m)) # lower(strip(name))

\* C10: when the name of a material or thread movement is unknown and the
\* user answers No, the submission fails, writes nothing to the inventory or
\* to the ledger, and leaves every dimension cache as it was.
C10_DeclinedWritesNothing ==
    /\ \A name \in MaterialNames, status \in Statuses :
          UnknownMaterial(World, name) =>
              LET r == process_material_entry(World, name, S("2"), status, Now, Declined)
                  h == update_material_entries(World,
                          <<[name |-> name, status |-> status, qty |-> S("2")]>>,
                          <<Declined>>, Now)
              IN  /\ r.ret = None
                  /\ Count(r.w.ev, "update_cell") = 0
                  /\ SameStore(r.w, World) /\ SameCaches(r.w, World)
                  /\ SameStore(h.w, World) /\ SameCaches(h.w, World)
                  /\ ~h.calls[1].ok
    /\ \A name \in ThreadNames, status \in Statuses :
          UnknownThread(World, name) =>
              LET r == process_thread_entry(World, name, S("2"), Declined)
                  h == update_thread_entries(World,
                          <<[name |-> name, status |-> status, qty |-> S("2")]>>,
                          <<Declined>>, Now)
              IN  /\ r.ret = "False"
                  /\ Count(r.w.ev, "update_cell") = 0
                  /\ SameStore(r.w, World) /\ SameCaches(r.w, World)
                  /\ SameStore(h.w, World) /\ SameCaches(h.w, World)
                  /\ ~h.calls[1].ok

\* A fur colour has been onboarded, its cache absent, and Denim is still
\* unknown: declining it is asked once, fails and keeps the cache absent.
C10_Witness ==
    /\ UnknownMaterial(World, S("Denim"))
    /\ S("Faux Fur") \in Members(World, "Fur Color")
    /\ ~FUR_COLORS_CACHE.loaded
    /\ LET r == process_material_entry(World, S("Denim"), S("2"), S("Ordered"), Now,
                                       Declined)
       IN  /\ Count(r.w.ev, "askyesno") = 1
           /\ r.ret = None
           /\ ~r.w.FUR_COLORS_CACHE.loaded

\* The numbers of LedgerEntry rows of a movement table and of
\* InventoryRecord rows (the non-empty cells of the three key columns).
LedgerRows(sh) == Len(get_all_values(sh)) - 1

InventoryRecords(w) ==
    Cardinality({<<d, r>> \in {"Materials", "Fur Color", "Thread Colors"} \X (2..Len(w.inv)) :
                    CellUnder(w.inv, r, S(d)) # <<>>})

Asked(ev) == Count(ev, "askyesno") > 0

\* C3: every movement submission that ends in success has appended exactly
\* one LedgerEntry row; through the onboarding branch it has also appended
\* exactly one InventoryRecord row and invalidated a cache exactly once, and
\* otherwise it has appended no InventoryRecord row.
C3_SuccessAppendsExactlyOnce ==
    /\ \A name \in MaterialNames, status \in Statuses, answer \in Answers :
          LET r == process_material_entry(World, name, S("2"), status, Now, answer)
          IN  r.ret # None =>
                  /\ LedgerRows(r.w.mlog) = LedgerRows(mlog) + 1
                  /\ InventoryRecords(r.w)
                        = InventoryRecords(World) + (IF Asked(r.w.ev) THEN 1 ELSE 0)
                  /\ Count(r.w.ev, "clear") = (IF Asked(r.w.ev) THEN 1 ELSE 0)
    /\ \A name \in ThreadNames, status \in Statuses, answer \in Answers :
          LET p == process_thread_entry(World, name, S("2"), answer)
              r == post_thread_data(p.w, name, S("2"), status, DateStamp(Now))
          IN  p.ret = "True" =>
                  /\ LedgerRows(r.w.tlog) = LedgerRows(tlog) + 1
                  /\ InventoryRecords(r.w)
                        = InventoryRecords(World) + (IF Asked(r.w.ev) THEN 1 ELSE 0)
                  /\ Count(r.w.ev, "clear") = (IF Asked(r.w.ev) THEN 1 ELSE 0)

\* C4: of two movements for the same unknown material submitted one after
\* the other, the user accepting with complete data, the first onboards the
\* name and the second finds it: no prompt, no InventoryRecord, one
\* LedgerEntry appended.
C4_OnboardedOnce ==
    \A name \in MaterialNames, status \in Statuses, again \in Answers :
        LET first == process_material_entry(World, name, S("2"), status, Now, Accepted)
            second == process_material_entry(Quiet(first.w), name, S("2"), status, Now,
                                             again)
        IN  (UnknownMaterial(World, name) /\ first.ret # None) =>
                /\ InventoryRecords(first.w) = InventoryRecords(World) + 1
                /\ ~Asked(second.w.ev)
                /\ InventoryRecords(second.w) = InventoryRecords(first.w)
                /\ second.ret # None
                /\ LedgerRows(second.w.mlog) = LedgerRows(first.w.mlog) + 1

\* The message boxes that report a missing header.
IsHeaderError(e) ==
    /\ e.k = "showerror"
    /\ e.t \in {"Header not found in Material Inventory",
                "Header not found in Material Log",
                "Required headers not found in Thread Data tab",
                "Required headers 'Materials' or 'Fur Color' not found"}

\* The submission whose calls are ev reported a missing header, then failed
\* (succeeded tells its outcome) without another cell write.
StopsAtMissingHeader(ev, succeeded) ==
    \A k \in DOMAIN ev :
        IsHeaderError(ev[k]) =>
            /\ ~succeeded
            /\ \A j \in DOMAIN ev : j > k => ev[j].k # "update_cell"

\* C9: once a required header is found missing during a movement
\* submission, in the creation of the inventory record or in the ledger
\* append, the submission ends in failure and writes no further cell.
C9_MissingHeaderStopsSubmission ==
    /\ \A name \in MaterialNames, status \in Statuses, answer \in Answers :
          LET r == process_material_entry(World, name, S("2"), status, Now, answer)
          IN  StopsAtMissingHeader(r.w.ev, r.ret # None)
    /\ \A name \in ThreadNames, status \in Statuses, answer \in Answers :
          LET h == update_thread_entries(World,
                      <<[name |-> name, status |-> status, qty |-> S("2")]>>,
                      <<answer>>, Now)
          IN  StopsAtMissingHeader(h.w.ev, h.calls[1].ok)

\* The row a reference denotes exists in its ledger.
RowExists(w, item) == item.row \in 2..Len(get_all_values(LedgerOf(w, item.type)))

TabOf(item) == IF item.type = "Material" THEN "mlog" ELSE "tlog"

WritesFor(ev, item) ==
    {k \in DOMAIN ev : ev[k].k = "update_cell" /\ ev[k].t = TabOf(item)
                          /\ ev[k].r = item.row}

HasStatusColumn(w, item) == InList(S("O/R"), LedgerOf(w, item.type)[1])

\* C7: receive of one reference to an existing row and one to a row that is
\* not in the ledger marks the former Received, writes nothing for the latter
\* and reports exactly one failure.
C7_MissingRowReported ==
    \A selected \in Selections(tree) :
        (/\ Len(selected) = 2
         /\ \A k \in 1..2 : HasStatusColumn(World, selected[k])
         /\ \E a, b \in 1..2 : RowExists(World, selected[a]) /\ ~RowExists(World, selected[b]))
        => LET r == receive_orders(World, tree, selected, Now)
           IN  \A k \in 1..2 :
                   IF RowExists(World, selected[k])
                   THEN CellUnder(LedgerOf(r.w, selected[k].type), selected[k].row,
                                  S("O/R")) = S("Received")
                   ELSE /\ WritesFor(r.w.ev, selected[k]) = {}
                        /\ Count(r.w.ev, "showerror") = 1

\* C8: in a receive over several references, one whose table has no O/R
\* column is skipped, its row unchanged, the others are marked Received, and
\* the call does not end on the plain success message.
C8_SkippedRefsSurfaced ==
    \A selected \in Selections(tree) :
        (/\ Len(selected) >= 2
         /\ \E k \in DOMAIN selected : ~HasStatusColumn(World, selected[k]))
        => LET r == receive_orders(World, tree, selected, Now)
           IN  /\ \A k \in DOMAIN selected :
                      IF HasStatusColumn(World, selected[k])
                      THEN CellUnder(LedgerOf(r.w, selected[k].type), selected[k].row,
                                     S("O/R")) = S("Received")
                      ELSE LedgerOf(r.w, selected[k].type)
                              = LedgerOf(World, selected[k].type)
               /\ Count(r.w.ev, "showinfo") = 0

\* The replies Yes followed by a dialog that lacks a required field.
Incomplete == {[response |-> TRUE, dialog |-> d] : d \in {DialogNoPrice, DialogCancelled}}

\* The call that ended on r asked, failed and wrote to no sheet of w.
FailedWithoutWrite(w, r, failures) ==
    Asked(r.w.ev) => (r.ret \in failures /\ SameStore(r.w, w)
                         /\ Count(r.w.ev, "update_cell") = 0)

\* C11: at every onboarding entry point (material and thread movements, the
\* order form's material and fur colour fields, the order submission) a Yes
\* followed by a dialog lacking a required field ends in failure with no
\* write to the inventory and none to a ledger.
C11_IncompleteDialogCreatesNothing ==
    \A answer \in Incomplete :
        /\ \A name \in MaterialNames, status \in Statuses :
              FailedWithoutWrite(World,
                  process_material_entry(World, name, S("2"), status, Now, answer),
                  {None})
        /\ \A name \in ThreadNames :
              FailedWithoutWrite(World, process_thread_entry(World, name, S("2"), answer),
                                 {"False", "NameError"})
        /\ \A fur \in OrderFurNames :
              /\ FailedWithoutWrite(World, fur_color_selected(World, fur, answer),
                                    {"Exception"})
              /\ FailedWithoutWrite(World, process_new_fur_color(World, fur, answer),
                                    {"Exception"})
        /\ \A mat \in OrderMaterialNames :
              /\ FailedWithoutWrite(World, process_new_materials(World, <<mat>>, <<answer>>),
                                    {"Exception"})
              /\ FailedWithoutWrite(World, material_selected(World, mat, answer),
                                    {"Exception"})

\* Position p of formula f is the row number 2 of a token made of capital
\* letters and that 2, no word character following.
IsRowTwo(f, p) ==
    /\ f[p] = "2"
    /\ p > 1 /\ f[p - 1] \in Upper
    /\ p < Len(f) => ~IsWord(f[p + 1])

\* Such a token is a cell reference unless it names a function or a sheet.
IsCellReference(f, p) ==
    /\ IsRowTwo(f, p)
    /\ p < Len(f) => f[p + 1] \notin {"(", "!"}

\* Formula f from position p on, with n in place of the character at each
\* of the positions given.
RECURSIVE Rewritten(_, _, _, _)
Rewritten(f, n, p, positions) ==
    IF p > Len(f) THEN <<>>
    ELSE (IF p \in positions THEN IntStr(n) ELSE <<f[p]>>)
            \o Rewritten(f, n, p + 1, positions)

\* The rows of the inventory records a session has created under a name
\* header, with the two cloned columns of that kind.
Kinds ==
    {[name |-> S("Materials"), on_order |-> S("On Order"), inventory |-> S("Inventory")],
     [name |-> S("Fur Color"), on_order |-> S("On Order."), inventory |-> S("Inventory.")]}

\* Every record created in the sheet holds, in its cloned columns, the
\* template's formula with the 2 of each token rewritten accepts replaced
\* by the record's row, or 0 where the template is empty.
ClonedAs(rewritten(_, _)) ==
    \A kind \in Kinds, r \in 3..Len(inv) :
        CellUnder(inv, r, kind.name) # <<>> =>
            \A h \in {kind.on_order, kind.inventory} :
                CellUnder(inv, r, h)
                    = IF CellUnder(inv, 2, h) = <<>> THEN S("0")
                      ELSE LET f == CellUnder(inv, 2, h)
                           IN  Rewritten(f, r, 1, {p \in DOMAIN f : rewritten(f, p)})

\* C12: a cloned formula is the template with every cell reference made of
\* column letters and the row 2 (a $ before the letters kept) now naming the
\* record's row, every other character as it was: references to rows such
\* as 20 or 12 and text that is no reference; an empty template gives 0.
C12_CloneRewritesReferencesOnly == ClonedAs(IsCellReference)

\* C13: a thread quantity of n whole cones is stored as the length
\* n * 16500, and the pending list shows that row's quantity as n with two
\* decimals followed by " cones" (it lists the row when the scan finds the
\* Date and O/R columns it needs besides those of the append).
C13_ConesRoundTrip ==
    \A n \in 0..MaxCones, name \in ThreadNames :
        LET p == post_thread_data(World, name, IntStr(n), S("Ordered"), DateStamp(Now))
            pending == load_orders_from_sheets(p.w)
            shown == {k \in DOMAIN pending :
                         pending[k].type = "Thread" /\ pending[k].row = p.ret}
        IN  p.ret # None =>
                /\ CellUnder(p.w.tlog, p.ret, S("Length (ft)")) = IntStr(n * ConeLength)
                /\ \A k \in shown :
                      pending[k].quantity = IntStr(n) \o <<".", "0", "0", " cones">>
                /\ (InList(S("Date"), tlog[1]) /\ InList(S("O/R"), tlog[1])) => shown # {}

\* Two cones of a thread have been submitted as ordered: the row appended
\* holds 33000 and the tree shows it as "2.00 cones".
C13_Witness ==
    \E k \in DOMAIN tree :
        /\ tree[k].type = "Thread"
        /\ tree[k].row > 2
        /\ CellUnder(tlog, tree[k].row, S("Length (ft)")) = <<"3", "3", "0", "0", "0">>
        /\ tree[k].quantity = <<"2", ".", "0", "0", " cones">>

\* The pending orders hold none of that type.
NoneOf(pending, type) == \A k \in DOMAIN pending : pending[k].type # type

\* The pending orders hold each row of sh whose status is "ordered",
\* ignoring case, once, if the scan of sh can read its columns.
EveryOrderedOf(pending, type, sh, readable) ==
    readable =>
        \A r \in 2..Len(sh) :
            OrderedIgnoringCase(CellUnder(sh, r, S("O/R"))) =>
                Cardinality({k \in DOMAIN pending :
                                pending[k].type = type /\ pending[k].row = r}) = 1

\* C14: when the scan of one movement table fails (the table is missing, or
\* lacks the Date, name or quantity column), loadPending returns no row of
\* that table and still every Ordered row of the other.
C14_FailedScanLeavesOtherTable ==
    LET pending == load_orders_from_sheets(World)
        m_ok == Readable(mlog, S("Material"), S("Yards"))
        t_ok == Readable(tlog, S("Color"), S("Length (ft)"))
    IN  /\ ~m_ok => (NoneOf(pending, "Material")
                        /\ EveryOrderedOf(pending, "Thread", tlog, t_ok))
        /\ ~t_ok => (NoneOf(pending, "Thread")
                        /\ EveryOrderedOf(pending, "Material", mlog, m_ok))

\* The Material Log has lost its Date column and holds an ordered row, which
\* the tree leaves out, listing the ordered row of Thread Data.
C14_Witness ==
    /\ mlog # NoTable /\ tlog # NoTable
    /\ ~Readable(mlog, S("Material"), S("Yards"))
    /\ \E r \in 2..Len(mlog) : CellUnder(mlog, r, S("O/R")) = S("Ordered")
    /\ NoneOf(tree, "Material")
    /\ \E k \in DOMAIN tree :
          CellUnder(tlog, tree[k].row, S("O/R")) = S("Ordered")

\* The cells of row r of a ledger that are under neither O/R nor Date.
FixedCells(sh, r) ==
    [c \in {k \in DOMAIN sh[1] : sh[1][k] \notin {S("O/R"), S("Date")}} |-> sh[r][c]]

\* C15: in every step of the session (movement appends, receive calls and
\* the rest), each row a ledger already holds keeps its name, quantity and
\* direction cells, and it is either left as it was or goes from status
\* Ordered to status Received with the date of the receive call.
C15_LedgerRowsChangeOnlyByReceive ==
    [][\A type \in {"Material", "Thread"} :
         LET old == LedgerOf(World, type)
             new == LedgerOf(World, type)'
         IN  /\ Len(new) >= Len(old)
             /\ new[1] = old[1]
             /\ \A r \in 2..Len(old) :
                    /\ FixedCells(new, r) = FixedCells(old, r)
                    /\ \/ new[r] = old[r]
                       \/ /\ CellUnder(old, r, S("O/R")) = S("Ordered")
                          /\ CellUnder(new, r, S("O/R")) = S("Received")
                          /\ CellUnder(new, r, S("Date")) = DateStamp(Now)]_vars

\* The thread order of the day before has been received and a thread
\* movement appended below it: its colour, length and direction are those it
\* was appended with.
C15_Witness ==
    /\ Len(tlog) > 2
    /\ CellUnder(tlog, 2, S("O/R")) = S("Received")
    /\ CellUnder(tlog, 2, S("Date")) = DateStamp(Now)
    /\ FixedCells(tlog, 2) = FixedCells(TLogSheet, 2)
    /\ CellUnder(tlog, 3, S("IN/OUT")) = S("IN")

\* The callers whose append to the ledger of that type has written a cell.
Writers(type) == {c \in Callers : inflight[c].type = type /\ inflight[c].k > 1}

\* The ledger of that type as the session found it.
LedgerAtStart(type) == IF type = "Material" THEN MLogSheet ELSE TLogSheet

\* Callers c and d both read the key column of a ledger before either
\* wrote, and both have returned their row.
ReadBeforeEitherWrote(c, d) ==
    /\ c # d
    /\ inflight[c].pc = "done" /\ inflight[d].pc = "done"
    /\ inflight[c].type = inflight[d].type
    /\ inflight[c].new_row = inflight[d].new_row

\* C16: nothing keeps two appends apart.  A ledger holds one new row per
\* distinct target row, not one per append: two callers that both read the
\* key column before either wrote have the same target row, both report
\* success, and the ledger holds one row for the two, each of its cells
\* written by one of them.
C16_SameTargetRowOneEntry ==
    /\ \A type \in {"Material", "Thread"} :
          Len(LedgerOf(World, type))
              = Len(LedgerAtStart(type))
                  + Cardinality({inflight[c].new_row : c \in Writers(type)})
    /\ \A c, d \in Callers :
          ReadBeforeEitherWrote(c, d) =>
              LET sh == LedgerOf(World, inflight[c].type)
                  row == inflight[c].new_row
              IN  /\ inflight[c].ret = row /\ inflight[d].ret = row
                  /\ \A k \in DOMAIN inflight[c].writes :
                        sh[row][inflight[c].writes[k][1]]
                            \in {inflight[e].writes[k][2] :
                                    e \in {x \in Callers :
                                             /\ inflight[x].type = inflight[c].type
                                             /\ inflight[x].new_row = row}}

\* Two callers posted a material movement each, one Ordered and one
\* Received; both read the key column before either wrote, both returned
\* row 3, and the ledger has grown by one row.
C16_Witness ==
    /\ ReadBeforeEitherWrote(1, 2)
    /\ inflight[1].type = "Material"
    /\ inflight[1].writes[4][2] = S("Ordered")
    /\ inflight[2].writes[4][2] = S("Received")
    /\ inflight[1].ret = 3 /\ inflight[2].ret = 3
    /\ Len(mlog) = Len(MLogSheet) + 1

\* The key columns of the inventory sheet.
KeyHeaders == {S("Materials"), S("Fur Color"), S("Thread Colors")}

\* The rows of sheet sh that hold a name under the key header.
RecordsUnder(sh, key) == {r \in 2..Len(sh) : CellUnder(sh, r, key) # <<>>}

\* C17: whatever the entry point of an onboarding (inventory movements, the
\* order form's material and fur colour fields, order submission), no key
\* column of the inventory sheet holds a name twice, and every step leaves
\* each inventory record in its row under its name.
C17_RecordsUniqueAndKept ==
    /\ [](\A key \in KeyHeaders :
            \A r, q \in RecordsUnder(inv, key) :
                CellUnder(inv, r, key) = CellUnder(inv, q, key) => r = q)
    /\ [][\A key \in KeyHeaders :
            \A r \in RecordsUnder(inv, key) :
                /\ r <= Len(inv')
                /\ CellUnder(inv', r, key) = CellUnder(inv, r, key)]_vars

\* Denim and Faux Fur have been onboarded, each once and below the record
\* the store began with, which is where it was.
C17_Witness ==
    /\ Len(inv) = 3
    /\ CellUnder(inv, 2, S("Materials")) = S("Canvas")
    /\ CellUnder(inv, 3, S("Materials")) = S("Denim")
    /\ CellUnder(inv, 2, S("Fur Color")) = S("White Fur")
    /\ CellUnder(inv, 3, S("Fur Color")) = S("Faux Fur")
    /\ MATERIALS_CACHE.loaded /\ FUR_COLORS_CACHE.loaded

\* The orders in which another user may leave the five columns of a
\* movement table: column c of the rearranged table is column p[c] of the
\* table as it was.
ColumnOrders ==
    {p \in [1..5 -> 1..5] : \A i, j \in 1..5 : p[i] = p[j] => i = j}

Permuted(sh, p) == [r \in DOMAIN sh |-> [c \in DOMAIN sh[r] |-> sh[r][p[c]]]]

\* The world with the columns of both movement tables rearranged.
Rearranged(w, p) == [w EXCEPT !.mlog = Permuted(w.mlog, p), !.tlog = Permuted(w.tlog, p)]

SameUpTo(p, w, v) ==
    /\ v.mlog = Permuted(w.mlog, p)
    /\ v.tlog = Permuted(w.tlog, p)

\* C18: whatever the order of the columns of a movement table when an
\* operation begins, an append returns the same row and a receive finds and
\* marks the same orders, and the table it leaves is the table it leaves
\* with the columns as they were, rearranged the same way.
C18_ColumnOrderIrrelevant ==
    /\ \A material \in MaterialNames, status \in Statuses, qty \in Quantities :
          \E a \in {update_material_log(World, material, qty, status, DateStamp(Now))} :
              \A p \in ColumnOrders :
                  \E b \in {update_material_log(Rearranged(World, p), material, qty,
                                                status, DateStamp(Now))} :
                      b.ret = a.ret /\ SameUpTo(p, a.w, b.w)
    /\ \A color \in ThreadNames, status \in Statuses, qty \in Quantities :
          \E a \in {post_thread_data(World, color, qty, status, DateStamp(Now))} :
              \A p \in ColumnOrders :
                  \E b \in {post_thread_data(Rearranged(World, p), color, qty,
                                             status, DateStamp(Now))} :
                      b.ret = a.ret /\ SameUpTo(p, a.w, b.w)
    /\ \E items \in {refresh(World)} :
          /\ \A p \in ColumnOrders : refresh(Rearranged(World, p)) = items
          /\ \A selected \in Selections(items) :
                \E a \in {receive_orders(World, items, selected, Now)} :
                    \A p \in ColumnOrders :
                        \E b \in {receive_orders(Rearranged(World, p), items,
                                                 selected, Now)} :
                            b.tree = a.tree /\ SameUpTo(p, a.w, b.w)

\* A movement has been appended to the Material Log, and with the columns of
\* the tables reversed an append still returns the next row and writes the name
\* under the name's header, now the last column, and a receive of the
\* pending orders still marks their rows.
C18_Witness ==
    LET p == [c \in 1..5 |-> 6 - c]
        there == Rearranged(World, p)
        a == update_material_log(there, S("Denim"), S("2"), S("Ordered"), DateStamp(Now))
        b == receive_orders(there, refresh(there), refresh(there), Now)
    IN  /\ Len(mlog) = 3
        /\ a.ret = 4
        /\ a.w.mlog[1][5] = S("Material") /\ a.w.mlog[4][5] = S("Denim")
        /\ refresh(there) # <<>>
        /\ \A k \in DOMAIN refresh(there) :
              CellUnder(LedgerOf(b.w, refresh(there)[k].type), refresh(there)[k].row,
                        S("O/R")) = S("Received")

\* The rows of sheet sh that hold a value under the header, the header's
\* own row among them.
FilledUnder(sh, header) == {r \in 1..Len(sh) : CellUnder(sh, r, header) # <<>>}

\* The last of them.
LastFilled(sh, header) ==
    CHOOSE r \in FilledUnder(sh, header) : \A q \in FilledUnder(sh, header) : q <= r

\* Sheet new is sheet old with the name written under the key header in the
\* row given, every other cell of the key column as it was.
NameWrittenAt(old, new, key, row, name) ==
    /\ Len(new) >= row
    /\ CellUnder(new, row, key) = name
    /\ \A r \in 1..Len(old) : r # row => CellUnder(new, r, key) = CellUnder(old, r, key)

\* The appends of the engine hit the row that target(sheet, key) names: the
\* two movement appends return it and write the name there, and the three
\* record creations write the name there.
AppendsTarget(target(_, _)) ==
    /\ \A material \in MaterialNames, status \in Statuses, qty \in Quantities :
          \E r \in {update_material_log(World, material, qty, status, DateStamp(Now))} :
              /\ r.ret = target(mlog, S("Material"))
              /\ NameWrittenAt(mlog, r.w.mlog, S("Material"), r.ret, material)
    /\ \A color \in ThreadNames, status \in Statuses, qty \in Quantities :
          \E r \in {post_thread_data(World, color, qty, status, DateStamp(Now))} :
              /\ r.ret = target(tlog, S("Color"))
              /\ NameWrittenAt(tlog, r.w.tlog, S("Color"), r.ret, color)
    /\ \A name \in MaterialNames :
          /\ NameWrittenAt(inv,
                 create_new_material_inventory(World, name, S("yard"), S("5"), S("10"),
                                               S("3")).inv,
                 S("Materials"), target(inv, S("Materials")), name)
          /\ NameWrittenAt(inv,
                 create_new_fur_color_inventory(World, name, S("5"), S("10"), S("3")).inv,
                 S("Fur Color"), target(inv, S("Fur Color")), name)
    /\ \A name \in ThreadNames :
          NameWrittenAt(inv,
              create_new_thread_inventory(World, name, S("5"), S("10"), S("3")).inv,
              S("Thread Colors"), target(inv, S("Thread Colors")), name)

OnePastLastFilled(sh, key) == LastFilled(sh, key) + 1

OnePastCountFilled(sh, key) == Cardinality(FilledUnder(sh, key)) + 1

\* C19 as amended: the target row of an append, of a ledger entry or of an
\* inventory record, is the row after the last non-empty cell of the key
\* column, blank cells above that cell or not.
C19_TargetIsOnePastLastFilled == AppendsTarget(OnePastLastFilled)

\* C19 as stated: the target row is 1 + the number of non-empty values in
\* the key column (its header cell counted), blank cells between them or not.
C19_TargetIsOnePastCount == AppendsTarget(OnePastCountFilled)

\* Thread Data began with a row without a colour between two rows with
\* one, and a movement has been appended: it is in row 5, the row after the
\* last colour, where 1 + the number of values in the column was 4.
C19_Witness ==
    /\ Len(tlog) = 5
    /\ CellUnder(tlog, 3, S("Color")) = <<>>
    /\ CellUnder(tlog, 4, S("Color")) = S("Black")
    /\ CellUnder(tlog, 5, S("Color")) \in ThreadNames
    /\ CellUnder(tlog, 5, S("Date")) = DateStamp(Now)
    /\ Cardinality(FilledUnder(tlog, S("Color"))) = 4

\* The row holds the five fields of a movement.
HoldsFiveFields(row, name, qty, status, date_stamp) ==
    {name, qty, S("IN"), status, date_stamp} \subseteq Range(row)

\* C20: an append that returns a row number, of a material movement or of
\* a thread movement, has written the name, the quantity, the direction IN,
\* the order status and the timestamp into that row.
C20_SuccessWroteFiveFields ==
    /\ \A material \in MaterialNames, status \in Statuses, qty \in Quantities :
          \E r \in {update_material_log(World, material, qty, status, DateStamp(Now))} :
              r.ret # None =>
                  HoldsFiveFields(r.w.mlog[r.ret], material, qty, status, DateStamp(Now))
    /\ \A color \in ThreadNames, status \in Statuses, qty \in Quantities :
          \E r \in {post_thread_data(World, color, qty, status, DateStamp(Now))} :
              r.ret # None =>
                  HoldsFiveFields(r.w.tlog[r.ret], color,
                                  IntStr(ParseNum(qty) * ConeLength), status,
                                  DateStamp(Now))

ExactlyOrCase(stored, typed) == lower(stored) = lower(typed)

CaseAndBlanksAside(stored, typed) == lower(strip(stored)) = lower(strip(typed))

\* A movement is appended without a question exactly when its name is that
\* of a member: a material's when it is a value of Materials or of Fur Color
\* as written, a thread's when it matches(value, name) a value of Thread
\* Colors; otherwise the question is asked.
PromptUnlessMember(matches(_, _)) ==
    /\ \A material \in MaterialNames, status \in Statuses, qty \in Quantities,
          answer \in Answers :
          \E r \in {process_material_entry(World, material, qty, status, Now, answer)} :
              /\ Asked(r.w.ev) <=> UnknownMaterial(World, material)
              /\ ~Asked(r.w.ev) =>
                    r = update_material_log(World, material, qty, status, DateStamp(Now))
    /\ \A color \in ThreadNames, qty \in Quantities, answer \in Answers :
          \E r \in {process_thread_entry(World, color, qty, answer)} :
              /\ Asked(r.w.ev) <=>
                    ~\E m \in Members(World, "Thread Colors") : matches(m, color)
              /\ ~Asked(r.w.ev) => r.ret = "True"

\* C21 as amended: the thread's name matches ignoring case and the blanks
\* around the stored value and the name.
C21_PromptUnlessMember == PromptUnlessMember(CaseAndBlanksAside)

\* C21 as stated: the thread's name equals a stored value ignoring case.
C21_PromptUnlessEqualIgnoringCase == PromptUnlessMember(ExactlyOrCase)

\* The inventory holds the material denim and the thread colour " red".  A
\* movement of Red has been appended with no question and no new record,
\* and one of Denim only after the record Denim was made.
C21_Witness ==
    /\ <<" ", "red">> \in Members(World, "Thread Colors")
    /\ S("Red") \notin Members(World, "Thread Colors")
    /\ \E r \in 3..Len(tlog) : CellUnder(tlog, r, S("Color")) = S("Red")
    /\ ~UnknownThread(World, S("Red"))

\* The number of columns another user may have inserted to the left of the
\* inventory sheet's.
MaxShift == 9

\* The inventory sheet with n columns headed Notes inserted on its left.
ShiftedRight(w, n) ==
    [w EXCEPT !.inv = [r \in DOMAIN @ |->
                          [c \in 1..n |-> IF r = 1 THEN S("Notes") ELSE <<>>] \o @[r]]]

\* The labels of the columns A to ZZ, and the label of column c.
Labels == {<<Alphabet[i]>> : i \in 1..26}
              \cup {<<Alphabet[i], Alphabet[j]>> : i, j \in 1..26}

LabelOf(c) == CHOOSE label \in Labels : a1_col(label) = c

ColumnUnder(sh, header) == CHOOSE c \in DOMAIN sh[1] : sh[1][c] = header

\* In sheet sh, the Value cell of the row after the last key holds
\* =price*(I+O), I and O the cells of that row under the two headers.
ValueCellOf(sh, key, value, inventory, on_order, price) ==
    LET r == OnePastLastFilled(sh, key)
    IN  CellUnder(sh, r - 1, value)
            = <<"=">> \o price \o <<"*", "(">>
                \o LabelOf(ColumnUnder(sh, inventory)) \o IntStr(r - 1) \o <<"+">>
                \o LabelOf(ColumnUnder(sh, on_order)) \o IntStr(r - 1) \o <<")">>

\* C22: the Value cell written for a new record of a material, of a fur
\* colour or of a thread colour is =price*(I+O), I and O the addresses of
\* the Inventory and On Order cells of the record's row, their letters those
\* of the columns the headers are in when the record is created.
C22_ValueFormulaOfOwnRow ==
    \A n \in 0..MaxShift, price \in {S("3"), S("12")} :
        /\ \A name \in MaterialNames :
              /\ ValueCellOf(create_new_material_inventory(ShiftedRight(World, n), name,
                                 S("yard"), S("5"), S("10"), price).inv,
                             S("Materials"), S("Value"), S("Inventory"), S("On Order"),
                             price)
              /\ ValueCellOf(create_new_fur_color_inventory(ShiftedRight(World, n), name,
                                 S("5"), S("10"), price).inv,
                             S("Fur Color"), S("Value."), S("Inventory."), S("On Order."),
                             price)
        /\ \A name \in ThreadNames :
              ValueCellOf(create_new_thread_inventory(ShiftedRight(World, n), name,
                              S("5"), S("10"), price).inv,
                          S("Thread Colors"), S("Value.."), S("Inventory.."),
                          S("On Order.."), price)

\* A material has been onboarded below a record of an earlier session: its
\* row is 4 and its Value cell reads =4.5*(F4+E4).
C22_Witness ==
    /\ CellUnder(inv, 3, S("Materials")) = S("denim")
    /\ CellUnder(inv, 4, S("Materials")) = S("Denim")
    /\ CellUnder(inv, 4, S("Value"))
          = <<"=", "4", ".", "5", "*", "(", "F", "4", "+", "E", "4", ")">>

\* The record made under the key header for the name keeps, in sheet final,
\* the computed cells that sheet made (the sheet as the creation left it)
\* holds under the three headers, each a formula or the literal 0.
ComputedCellsKept(made, final, key, name, computed) ==
    \A r \in 2..Len(made) :
        CellUnder(made, r, key) = name =>
            \A h \in computed :
                /\ CellUnder(final, r, h) = CellUnder(made, r, h)
                /\ CellUnder(final, r, h) = S("0") \/ Head(CellUnder(final, r, h)) = "="

\* The material and fur colour part of C23: the movement of a new name,
\* accepted with complete data, leaves the record's computed cells as
\* created.
MaterialComputedCellsKept ==
    \A name \in MaterialNames, status \in Statuses, qty \in Quantities :
        UnknownMaterial(World, name) =>
            \E made \in {IF ContainsFur(lower(name))
                         THEN create_new_fur_color_inventory(World, name,
                                  Accepted.dialog.min_inv, Accepted.dialog.reorder,
                                  Accepted.dialog.price)
                         ELSE create_new_material_inventory(World, name,
                                  Accepted.dialog.unit, Accepted.dialog.min_inv,
                                  Accepted.dialog.reorder, Accepted.dialog.price)} :
                \E r \in {process_material_entry(World, name, qty, status, Now, Accepted)} :
                    /\ r.ret # None
                    /\ IF ContainsFur(lower(name))
                       THEN ComputedCellsKept(made.inv, r.w.inv, S("Fur Color"), name,
                                {S("On Order."), S("Inventory."), S("Value.")})
                       ELSE ComputedCellsKept(made.inv, r.w.inv, S("Materials"), name,
                                {S("On Order"), S("Inventory"), S("Value")})

\* The thread part: the steps process_thread_entry takes after the dialog
\* of a new colour (the record's creation, then update_thread_inventory_cell
\* with the quantity of the movement) leave the record's computed cells as
\* created.
ThreadComputedCellsKept ==
    \A name \in ThreadNames, qty \in Quantities :
        UnknownThread(World, name) =>
            \E made \in {create_new_thread_inventory(World, name, Accepted.dialog.min_inv,
                             Accepted.dialog.reorder, Accepted.dialog.price)} :
                \E r \in {update_thread_inventory_cell(made, name, qty)} :
                    ComputedCellsKept(made.inv, r.w.inv, S("Thread Colors"), name,
                        {S("On Order.."), S("Inventory.."), S("Value..")})

InScanOrder(items) ==
    \A i, j \in DOMAIN items :
        i < j =>
            /\ items[i].type = "Thread" => items[j].type = "Thread"
            /\ items[i].type = items[j].type => items[i].row < items[j].row

PartialRow(sh, batch, n) ==
    /\ Len(sh) = Len(MLogSheet) + (batch.i - 1) + (IF n > 0 THEN 1 ELSE 0)
    /\ n > 0 => batch.new_row = Len(sh)
    /\ \A j \in DOMAIN batch.writes :
          /\ j <= n => sh[batch.new_row][batch.writes[j][1]] = batch.writes[j][2]
          /\ (j > n /\ n > 0) => sh[batch.new_row][batch.writes[j][1]] = <<>>

\* C25: when a store call fails in an append after k of its writes, the
\* failure reaches the handler (which shows it and ends), the k cells
\* written stay in the Material Log as a partial row, and from then on
\* nothing is written: no retry, no further cell of that append, and no
\* later row of the batch.
C25_FailureLeavesPartialRow ==
    [][(inflight' # NoCalls /\ inflight'[1].error) =>
          /\ inflight'[1].pc = "failed"
          /\ PartialRow(mlog', inflight'[1], inflight'[1].k - 1)
          /\ (inflight # NoCalls /\ inflight[1].error) =>
                /\ mlog' = mlog
                /\ inv' = inv]_vars

\* The second row of a batch failed after two of its five writes: the first
\* row is whole in the Material Log, the second has its name and quantity.
C25_Witness ==
    /\ inflight # NoCalls
    /\ inflight[1].error
    /\ inflight[1].i = 2
    /\ inflight[1].k = 3
    /\ Len(inflight[1].form) = 2
    /\ CellUnder(mlog, Len(mlog) - 1, S("Date")) = DateStamp(Now)
    /\ CellUnder(mlog, Len(mlog), S("Material")) = inflight[1].form[2].name
    /\ CellUnder(mlog, Len(mlog), S("O/R")) = <<>>

\* The record of the thread the typed colour was matched with (ignoring case
\* and surrounding blanks) holds the quantity in its Inventory.. cell.
MatchedThreadHolds(sh, color, qty) ==
    \E r \in 2..Len(sh) :
        /\ lower(strip(CellUnder(sh, r, S("Thread Colors")))) = lower(strip(color))
        /\ CellUnder(sh, r, S("Inventory..")) = qty

\* C26: when the colour of a thread movement is found among the Thread
\* Colors (ignoring case), the movement gets its row in Thread Data only if
\* the inventory cell of the matching thread was updated; a colour typed in
\* another case than the stored one gets no ledger row with its inventory
\* left as it was.
C26_FoundThreadInventoryUpdated ==
    \A color \in ThreadNames, status \in Statuses, qty \in Quantities :
        ~UnknownThread(World, color) =>
            \E r \in {update_thread_entries(World,
                          <<[name |-> color, status |-> status, qty |-> qty]>>,
                          <<[response |-> FALSE, dialog |-> DialogCancelled]>>, Now)} :
                Len(r.w.tlog) > Len(tlog) => MatchedThreadHolds(r.w.inv, color, qty)

\* The forms of up to MaxBatch filled rows over the given names, and the
\* replies the user may give to the prompts of each row.
RowsOf(names) ==
    UNION {[1..n -> [name : names, status : {S("Ordered")}, qty : Quantities]] :
              n \in 1..MaxBatch}

\* The handler takes the rows of the form in order; a row that ends without
\* a ledger row is the last one taken, and the store is then as the form cut
\* after that row leaves it; the rows before it have their ledger rows, one
\* below the other.
StopsAtFailure(handler(_, _, _, _), type, key, names) ==
    \A form \in RowsOf(names) :
        \A answers \in [DOMAIN form -> BatchAnswers] :
            \E r \in {handler(World, form, answers, Now)} :
                /\ Len(r.calls) <= Len(form)
                /\ \A i \in DOMAIN r.calls :
                      /\ r.calls[i].name = form[i].name
                      /\ r.calls[i].row = None =>
                            /\ i = Len(r.calls)
                            /\ SameStore(r.w, handler(World, SubSeq(form, 1, i),
                                                      SubSeq(answers, 1, i), Now).w)
                      /\ r.calls[i].row # None =>
                            /\ CellUnder(LedgerOf(r.w, type), r.calls[i].row, key)
                                  = form[i].name
                            /\ i > 1 => r.calls[i - 1].row < r.calls[i].row

MaterialBatchStopsAtFailure ==
    StopsAtFailure(update_material_entries, "Material", S("Material"),
                   {S("Canvas"), S("Denim")})

ThreadBatchStopsAtFailure ==
    StopsAtFailure(update_thread_entries, "Thread", S("Color"), {S("Black"), S("Red")})

\* C27: a batch is processed row by row in form order; at the first row that
\* ends in failure (declined, incomplete data, missing header) processing
\* stops, the ledger rows of the earlier rows stay, and nothing is written
\* for a later row; for the material form and for the thread form.
C27_BatchStopsAtFirstFailure ==
    MaterialBatchStopsAtFailure /\ ThreadBatchStopsAtFailure

\* What a row reference says of the entry it was loaded from.
Ref(item) == [type |-> item.type, row |-> item.row, name |-> item.name]

\* The references a load may return in the sessions explored.
Refs ==
    [type : {"Material"}, row : 2..(Len(MLogSheet) + MaxRows),
     name : {S("Canvas")} \cup MaterialNames]
        \cup [type : {"Thread"}, row : 2..(Len(TLogSheet) + MaxRows),
              name : {S("Black")} \cup ThreadNames]

\* The row the reference names holds the entry it was loaded from.
StillDenotes(ref, w) ==
    CellUnder(LedgerOf(w, ref.type), ref.row,
              IF ref.type = "Material" THEN S("Material") ELSE S("Color")) = ref.name

\* receive on that reference alone leaves every other row of both ledgers as
\* it is, and the referenced row with its name, quantity and direction.
ReceiveTouchesOnly(ref, w) ==
    \E r \in {receive_orders(w, <<>>, <<ref>>, Now)} :
        \A type \in {"Material", "Thread"} :
            /\ Len(LedgerOf(r.w, type)) = Len(LedgerOf(w, type))
            /\ \A n \in 2..Len(LedgerOf(w, type)) :
                  /\ FixedCells(LedgerOf(r.w, type), n) = FixedCells(LedgerOf(w, type), n)
                  /\ (type # ref.type \/ n # ref.row) =>
                        LedgerOf(r.w, type)[n] = LedgerOf(w, type)[n]

\* C28: a row reference the pending list once held names the same ledger
\* entry after every later sequence of appends and receives of the session,
\* and a receive on it then changes no other entry.
C28_ReferenceKeepsItsEntry ==
    \A ref \in Refs :
        []((\E k \in DOMAIN tree : Ref(tree[k]) = ref) =>
              [](StillDenotes(ref, World) /\ ReceiveTouchesOnly(ref, World)))

\* The order of the day before has been received and two movements appended
\* since the list was first loaded; the first of them is still on the list,
\* under the row number it was appended at.
C28_Witness ==
    /\ Len(mlog) = Len(MLogSheet) + 2
    /\ CellUnder(mlog, 2, S("O/R")) = S("Received")
    /\ CellUnder(mlog, 2, S("Material")) = S("Canvas")
    /\ \E k \in DOMAIN tree :
          /\ Ref(tree[k]).type = "Material"
          /\ Ref(tree[k]).row = 3
          /\ StillDenotes(Ref(tree[k]), World)

\* C29: a receive on selected references changes, in the ledger of each
\* reference's kind, only the status and date cells of the referenced rows;
\* every other row of that ledger, the whole of the other ledger when no
\* reference is of its kind, the inventory, the directory, the products
\* table and the caches stay as they are.  A Material and a Thread reference
\* with the same row number each touch their own ledger.
C29_ReceiveChangesOnlyItsRows ==
    \A selected \in Selections(tree) \ {<<>>} :
        \E r \in {receive_orders(World, tree, selected, Now)} :
            /\ r.w.inv = inv /\ r.w.dir = dir /\ r.w.tbl = tbl
            /\ SameCaches(r.w, World)
            /\ \A type \in {"Material", "Thread"} :
                  LET old == LedgerOf(World, type)
                      new == LedgerOf(r.w, type)
                  IN  /\ Len(new) = Len(old)
                      /\ new[1] = old[1]
                      /\ \A n \in 2..Len(old) :
                            /\ FixedCells(new, n) = FixedCells(old, n)
                            /\ ~Listed(selected, type, n) => new[n] = old[n]
                            /\ Listed(selected, type, n) =>
                                  CellUnder(new, n, S("O/R")) = S("Received")

\* Row 2 of the Material Log and row 2 of Thread Data were both pending; the
\* material one has been received today, the thread one is still as the day
\* before and on the list.
C29_Witness ==
    /\ CellUnder(mlog, 2, S("O/R")) = S("Received")
    /\ CellUnder(mlog, 2, S("Date")) = DateStamp(Now)
    /\ tlog[2] = TLogSheet[2]
    /\ Listed(tree, "Thread", 2)
    /\ ~Listed(tree, "Material", 2)

\* The callers that computed the target row of caller c for the same ledger.
SharingTarget(c) ==
    {d \in Callers : /\ inflight[d].pc # "idle"
                     /\ inflight[d].type = inflight[c].type
                     /\ inflight[d].new_row = inflight[c].new_row}

\* The row of a finished append holds, in each column the append wrote, the
\* value that append wrote there.
CarriesFieldsOf(c) ==
    \A k \in DOMAIN inflight[c].writes :
        LedgerOf(World, inflight[c].type)[inflight[c].new_row][inflight[c].writes[k][1]]
            = inflight[c].writes[k][2]

\* C30: a row mixes the fields of two submissions only when both appends
\* computed it as their target: the row of a finished append that no other
\* caller targeted carries the fields of that one submission.
C30_UnsharedRowOneSubmission ==
    \A c \in Callers :
        (inflight[c].pc = "done" /\ inflight[c].ret # None /\ SharingTarget(c) = {c})
            => CarriesFieldsOf(c)

\* Two appends to the Material Log computed row 3 and interleaved their
\* writes: the row has the name of the first with the status of the second,
\* and is the entry of neither.
C30_Witness ==
    /\ ReadBeforeEitherWrote(1, 2)
    /\ inflight[1].type = "Material"
    /\ inflight[1].writes[1][2] = S("Denim") /\ inflight[1].writes[4][2] = S("Ordered")
    /\ inflight[2].writes[1][2] = S("Hemp") /\ inflight[2].writes[4][2] = S("Received")
    /\ CellUnder(mlog, 3, S("Material")) = S("Denim")
    /\ CellUnder(mlog, 3, S("O/R")) = S("Received")
    /\ ~CarriesFieldsOf(1) /\ ~CarriesFieldsOf(2)

====
